---------------------------- MODULE Spec2Model ----------------------------
(***************************************************************************)
(* A model of the haberai-mvp ETL core: the source reader (MongoDBService), *)
(* the content normalizer (cleanHtmlContent, validatePostContent), the      *)
(* record transformer and the orchestrator (ETLService), and the vector     *)
(* index writer (VectorService).                                            *)
(*                                                                          *)
(* JavaScript strings are sequences of one-character strings; a JavaScript  *)
(* value that may be undefined or of the wrong type is a record [t, s].     *)
(***************************************************************************)
EXTENDS Integers, Sequences, FiniteSets, TLC

(***************************************************************************)
(* Bounds of the model.                                                     *)
(***************************************************************************)
MaxPosts == 3          \* documents in the source collection
MaxBatch == 2          \* largest batchSize given to the ETLService constructor
MaxRuns == 2           \* calls a caller makes one after the other
MaxRerunPosts == 2     \* documents in the source collection when calls repeat
MaxArticles == 5       \* articles in one storeArticlesBatch call
SmallVectorSize == 4   \* a configured vectorSize other than the default

(***************************************************************************)
(* Program constants.                                                       *)
(***************************************************************************)
MinContentLength == 50     \* validatePostContent: minimum cleaned length
MaxTitleLength == 200      \* validatePostContent: maximum title length
SummaryLength == 200       \* transformPost: derived summary prefix
PublishedStatus == 1       \* fetchPosts / getPostCount: status of active posts
DefaultVectorSize == 1536  \* VectorService: config.vectorSize when none is given
OpenAIDimension == 1536    \* length of a text-embedding-3-small embedding

(***************************************************************************)
(* JavaScript values.                                                       *)
(***************************************************************************)
Undefined == [t |-> "undefined", s |-> <<>>]
Str(s) == [t |-> "string", s |-> s]
NotAString == [t |-> "number", s |-> <<>>]     \* a truthy value that is no string

\* !v for the values above: undefined and '' are falsy
Falsy(v) == v.t = "undefined" \/ (v.t = "string" /\ v.s = <<>>)

\* a || b
OrElse(a, b) == IF Falsy(a) THEN b ELSE a

Repeat(c, n) == [k \in 1..n |-> c]

(***************************************************************************)
(* String helpers: the regular expressions of cleanHtmlContent.             *)
(***************************************************************************)
IsSpace(c) == c \in {" ", "\n", "\t", "\r"}
IsLineTerminator(c) == c \in {"\n", "\r"}

\* String.prototype.toLowerCase on the letters the patterns name
LowerChar(c) ==
  CASE c = "S" -> "s" [] c = "C" -> "c" [] c = "R" -> "r" [] c = "I" -> "i"
    [] c = "P" -> "p" [] c = "T" -> "t" [] c = "Y" -> "y" [] c = "L" -> "l"
    [] c = "E" -> "e" [] OTHER -> c

\* s has the literal lit (case-insensitively) at position p
HasAt(s, p, lit) ==
  /\ p >= 1
  /\ p + Len(lit) - 1 <= Len(s)
  /\ \A k \in 1..Len(lit) : LowerChar(s[p + k - 1]) = lit[k]

\* position of the first ">" at or after p, 0 when there is none
FirstGt(s, p) ==
  IF \E g \in p..Len(s) : s[g] = ">"
  THEN CHOOSE g \in p..Len(s) : s[g] = ">" /\ \A h \in p..(g - 1) : s[h] # ">"
  ELSE 0

\* .*? then the closing literal: position of the first occurrence of close at or
\* after p with no line terminator before it, 0 when there is none
FirstClose(s, p, close) ==
  LET found(c) == /\ HasAt(s, c, close)
                  /\ \A h \in p..(c - 1) : ~HasAt(s, h, close) /\ ~IsLineTerminator(s[h])
  IN IF \E c \in p..Len(s) : found(c)
     THEN CHOOSE c \in p..Len(s) : found(c)
     ELSE 0

\* end position of the match of /<open[^>]*>.*?close/i that starts at p, 0 if none
BlockEnd(s, p, open, close) ==
  IF ~HasAt(s, p, open) THEN 0
  ELSE LET g == FirstGt(s, p + Len(open))
       IN IF g = 0 THEN 0
          ELSE LET c == FirstClose(s, g + 1, close)
               IN IF c = 0 THEN 0 ELSE c + Len(close) - 1

\* s.replace(/<open[^>]*>.*?close/gi, '') from position p on
RECURSIVE RemoveBlocks(_, _, _, _)
RemoveBlocks(s, p, open, close) ==
  IF \E q \in p..Len(s) : BlockEnd(s, q, open, close) > 0
  THEN LET q == CHOOSE q \in p..Len(s) :
                  /\ BlockEnd(s, q, open, close) > 0
                  /\ \A h \in p..(q - 1) : BlockEnd(s, h, open, close) = 0
       IN SubSeq(s, p, q - 1)
            \o RemoveBlocks(s, BlockEnd(s, q, open, close) + 1, open, close)
  ELSE SubSeq(s, p, Len(s))

\* a faulty variant of StripTags: the pattern without its g flag, which
\* replaces the first tag only
StripTags_FirstOnly(s, p) ==
  LET starts == {q \in p..Len(s) : s[q] = "<" /\ FirstGt(s, q + 1) > 0}
  IN IF starts = {} THEN SubSeq(s, p, Len(s))
     ELSE LET q == CHOOSE q \in starts : \A r \in starts : q <= r
          IN SubSeq(s, p, q - 1) \o <<" ">> \o SubSeq(s, FirstGt(s, q + 1) + 1, Len(s))

\* s.replace(/<[^>]*>/g, ' ') from position p on
RECURSIVE StripTags(_, _)
StripTags(s, p) ==
  IF \E q \in p..Len(s) : s[q] = "<" /\ FirstGt(s, q + 1) > 0
  THEN LET q == CHOOSE q \in p..Len(s) :
                  /\ s[q] = "<" /\ FirstGt(s, q + 1) > 0
                  /\ \A h \in p..(q - 1) : s[h] # "<"
       IN SubSeq(s, p, q - 1) \o <<" ">> \o StripTags(s, FirstGt(s, q + 1) + 1)
  ELSE SubSeq(s, p, Len(s))

\* s.replace(/\s+/g, ' ') from position p on
CollapseSpaces(s, p) ==
  LET kept == [k \in 1..Len(s) |->
                 IF k < p THEN ""
                 ELSE IF ~IsSpace(s[k]) THEN s[k]
                 ELSE IF k > 1 /\ IsSpace(s[k - 1]) THEN "" ELSE " "]
  IN SelectSeq(kept, LAMBDA c : c # "")

RECURSIVE TrimLeft(_)
TrimLeft(s) ==
  IF s # <<>> /\ IsSpace(s[1]) THEN TrimLeft(Tail(s)) ELSE s

RECURSIVE TrimRight(_)
TrimRight(s) ==
  IF s # <<>> /\ IsSpace(s[Len(s)]) THEN TrimRight(SubSeq(s, 1, Len(s) - 1)) ELSE s

\* String.prototype.trim
Trim(s) == TrimRight(TrimLeft(s))

\* String.prototype.substring(0, n)
Prefix(s, n) == SubSeq(s, 1, IF n < Len(s) THEN n ELSE Len(s))

ScriptOpen == <<"<", "s", "c", "r", "i", "p", "t">>
ScriptClose == <<"<", "/", "s", "c", "r", "i", "p", "t", ">">>
StyleOpen == <<"<", "s", "t", "y", "l", "e">>
StyleClose == <<"<", "/", "s", "t", "y", "l", "e", ">">>

\* cleanHtmlContent(html) for a string html ('' when html is falsy)
cleanHtmlContent(html) ==
  IF html = <<>> THEN <<>>
  ELSE Trim(CollapseSpaces(
         StripTags(
           RemoveBlocks(RemoveBlocks(html, 1, ScriptOpen, ScriptClose),
                        1, StyleOpen, StyleClose),
           1),
         1))


(***************************************************************************)
(* Source documents (MongoPost) and the source reader (MongoDBService).     *)
(*                                                                          *)
(* _id is a BSON ObjectId; ObjectId.toString() yields a BSON string.  A     *)
(* comparison query operator matches a field only when the BSON type of the *)
(* field is the type of the query value.                                    *)
(***************************************************************************)
ObjectId(n) == [bson |-> "objectId", v |-> n]
NoId == [bson |-> "undefined", v |-> 0]

\* ObjectId.prototype.toString: the hexadecimal string, ordered like the id
IdToString(id) == [bson |-> "string", v |-> id.v]

\* { field: { $gt: value } }
MongoGt(field, value) == field.bson = value.bson /\ field.v > value.v

NoDate == 0            \* an absent Date (undefined)

\* a || b for dates
OrDate(a, b) == IF a # NoDate THEN a ELSE b

ValidBody == <<"<", "p", ">">> \o Repeat("a", MinContentLength)

PostKinds == {"valid", "emptyBody", "malformed", "old"}

\* the document with identifier n of each kind the model draws
PostOfKind(kind, n) ==
  [_id |-> ObjectId(n),
   title |-> Str(<<"t">>),
   text |-> CASE kind = "emptyBody" -> Str(<<>>)
              [] kind = "malformed" -> NotAString
              [] OTHER -> Str(ValidBody),
   altText |-> Undefined,
   body |-> Undefined,
   summary |-> Undefined,
   seo_description |-> Undefined,
   status |-> PublishedStatus,
   created_at |-> 1,
   published_at |-> IF kind = "old" THEN 1 ELSE 2]

\* the filter fetchPosts and getPostCount build
QueryMatches(post, status, fromDate, toDate, lastId) ==
  /\ post.status = status
  /\ (fromDate # NoDate => post.published_at # NoDate /\ post.published_at >= fromDate)
  /\ (toDate # NoDate => post.published_at # NoDate /\ post.published_at <= toDate)
  /\ (lastId # NoId => MongoGt(post._id, lastId))

\* s.slice(skip, skip + limit)
SkipLimit(s, skip, limit) ==
  SubSeq(s, skip + 1, IF skip + limit < Len(s) THEN skip + limit ELSE Len(s))

\* MongoDBService.fetchPosts: find(query).sort({_id: 1}).skip(skip).limit(limit);
\* coll is kept in ascending _id order
fetchPosts(coll, limit, skip, fromDate, toDate, lastId) ==
  SkipLimit(
    SelectSeq(coll, LAMBDA p : QueryMatches(p, PublishedStatus, fromDate, toDate, lastId)),
    skip, limit)

\* MongoDBService.getPostCount: countDocuments({status: 1, published_at: ...})
getPostCount(coll, fromDate, toDate) ==
  Len(SelectSeq(coll, LAMBDA p : QueryMatches(p, PublishedStatus, fromDate, toDate, NoId)))

(***************************************************************************)
(* Content normalizer: validatePostContent (strict variant of lib/mongodb). *)
(***************************************************************************)
\* the accesses of validatePostContent that raise a TypeError: .trim() and
\* .replace() of a truthy value that is no string
ValidationThrows(post) ==
  \/ (~Falsy(post.title) /\ post.title.t # "string")
  \/ (~Falsy(post.text) /\ post.text.t # "string")

\* a faulty variant of ValidationIssues: the title is not trimmed
ValidationIssues_NoTrim(post) ==
  LET cleanContent == cleanHtmlContent(OrElse(post.text, Str(<<>>)).s)
  IN (IF Falsy(post.title) \/ post.title.s = <<>>
        THEN <<"Missing or empty title">> ELSE <<>>)
  \o (IF Falsy(post.text) \/ Trim(post.text.s) = <<>>
        THEN <<"Missing or empty content">> ELSE <<>>)
  \o (IF Len(cleanContent) < MinContentLength
        THEN <<"Content too short (minimum 50 characters)">> ELSE <<>>)
  \o (IF ~Falsy(post.title) /\ Len(post.title.s) > MaxTitleLength
        THEN <<"Title too long (maximum 200 characters)">> ELSE <<>>)
  \o (IF post.status # PublishedStatus
        THEN <<"Post status is not published">> ELSE <<>>)

ValidationIssues(post) ==
  LET cleanContent == cleanHtmlContent(OrElse(post.text, Str(<<>>)).s)
  IN (IF Falsy(post.title) \/ Trim(post.title.s) = <<>>
        THEN <<"Missing or empty title">> ELSE <<>>)
  \o (IF Falsy(post.text) \/ Trim(post.text.s) = <<>>
        THEN <<"Missing or empty content">> ELSE <<>>)
  \o (IF Len(cleanContent) < MinContentLength
        THEN <<"Content too short (minimum 50 characters)">> ELSE <<>>)
  \o (IF ~Falsy(post.title) /\ Len(post.title.s) > MaxTitleLength
        THEN <<"Title too long (maximum 200 characters)">> ELSE <<>>)
  \o (IF post.status # PublishedStatus
        THEN <<"Post status is not published">> ELSE <<>>)

validatePostContent(post) ==
  IF ValidationThrows(post)
  THEN [threw |-> TRUE, isValid |-> FALSE, issues |-> <<>>]
  ELSE LET issues == ValidationIssues(post)
       IN [threw |-> FALSE, isValid |-> issues = <<>>, issues |-> issues]

(***************************************************************************)
(* Record transformer: ETLService.transformPost.                            *)
(***************************************************************************)
Ellipsis == <<".", ".", ".">>

\* a faulty variant of DeriveSummary: the marker is added from 200 characters on
DeriveSummary_MarkerAtLimit(post, cleanContent) ==
  LET given == OrElse(OrElse(post.summary, post.seo_description), Str(<<>>))
  IN IF Falsy(given) /\ cleanContent # <<>>
     THEN Prefix(cleanContent, SummaryLength)
          \o (IF Len(cleanContent) >= SummaryLength THEN Ellipsis ELSE <<>>)
     ELSE given.s

\* the summary of transformPost: the given one, else the first 200 characters
\* of the cleaned body, marked when the body is longer
DeriveSummary(post, cleanContent) ==
  LET given == OrElse(OrElse(post.summary, post.seo_description), Str(<<>>))
  IN IF Falsy(given) /\ cleanContent # <<>>
     THEN Prefix(cleanContent, SummaryLength)
          \o (IF Len(cleanContent) > SummaryLength THEN Ellipsis ELSE <<>>)
     ELSE given.s

NoData == [title |-> <<>>, content |-> <<>>, summary |-> <<>>,
           published_at |-> NoDate, channel_id |-> 0, mongo_id |-> NoId]

\* the body of transformPost, validation being what validatePostContent returned
TransformWith(validation, post, chId) ==
     IF validation.threw
     THEN [success |-> FALSE, skipped |-> FALSE, hasData |-> FALSE, data |-> NoData,
           error |-> "Transformation error"]
     ELSE IF ~validation.isValid
     THEN [success |-> FALSE, skipped |-> TRUE, hasData |-> FALSE, data |-> NoData,
           error |-> ""]
     ELSE LET cleanContent == cleanHtmlContent(OrElse(post.text, Str(<<>>)).s)
          IN [success |-> TRUE, skipped |-> FALSE, hasData |-> TRUE,
              data |-> [title |-> post.title.s,
                        content |-> cleanContent,
                        summary |-> DeriveSummary(post, cleanContent),
                        published_at |-> post.published_at,
                        channel_id |-> chId,
                        mongo_id |-> IdToString(post._id)],
              error |-> ""]

transformPost(post, chId) == TransformWith(validatePostContent(post), post, chId)


(***************************************************************************)
(* State.                                                                   *)
(***************************************************************************)
VARIABLES
  collection,        \* source: the posts collection, in ascending _id order
  news_channels,     \* relational store: rows of news_channels
  news_articles,     \* relational store: rows of news_articles
  batchSize,         \* ETLService.batchSize
  defaultChannelId,  \* ETLService.defaultChannelId (0 is null)
  client,            \* MongoDBService.client: "none", "created" or "connected"
  pc,                \* position of the running call
  call,              \* the entry point invoked and its arguments
  options,           \* migrateAllPosts: fromDate, toDate, channelName, dryRun
  channelId,         \* migrateAllPosts: const channelId
  migrationJob,      \* migrateAllPosts: const migrationJob
  lastId,            \* migrateAllPosts: let lastId
  totalProcessed,    \* migrateAllPosts: let totalProcessed
  totalFailed,       \* migrateAllPosts: let totalFailed
  allErrors,         \* migrateAllPosts: let allErrors
  posts,             \* the batch being processed
  idx,               \* processBatch: position of the for..of loop in posts
  results,           \* processBatch: const results
  outcome,           \* how the call settled: "pending", "returned" or "thrown"
  thrown,            \* the value the call rejected with
  requests,          \* history: write requests sent to the target stores
  fetches,           \* history: the cursor of every fetchPosts call
  handed,            \* history: identifiers handed to processBatch, in order
  outcomes,          \* history: what became of each record of the current batch
  statuses,          \* history: the values migrationJob.status has taken, in order
  runs,              \* number of calls made so far by the caller
  prev,              \* history: how the caller's previous call ended
  openai,            \* VectorService.openai is set (an API key is configured)
  vectorSize,        \* VectorService.config.vectorSize
  qdrant_points,     \* vector index: the points of the collection
  vArticles,         \* storeArticlesBatch: articles
  vpc,               \* position of the running storeArticlesBatch call
  vi,                \* storeArticlesBatch: position of the for..of loop
  points,            \* storeArticlesBatch: const points
  voutcome,          \* how storeArticlesBatch settled
  embedLog,          \* history: what the remote embedding call did, per article
  upserts,           \* history: the upsert requests sent to the vector index
  mfn,               \* the batch migration running: migrateToVectorOnly or migrateWithVectors
  mopts,             \* its options: limit, offset, dryRun, enableVectors (0 is absent)
  mpc,               \* position of the running batch migration
  result,            \* const result: MigrationResult
  totalPosts,        \* const totalPosts
  currentOffset,     \* let currentOffset
  vectorBatch,       \* migrateWithVectors: let vectorBatch
  uuids,             \* number of identifiers randomUUID has handed out
  moutcome,          \* how the batch migration settled
  mfetches,          \* history: the fetchPosts calls of the batch migration
  mwrites,           \* history: the batch writes it sent to the target stores
  qdrant_collection, \* vector index: the collection and its payload indexes
  initLog,           \* history: the calls of initializeCollection
  ensured,           \* history: the calls of ensureDefaultChannel that returned
  jobs,              \* two jobs that ensure a channel side by side
  responses,         \* history: the get-status responses
  cleaned,           \* an input of cleanHtmlContent and what became of it
  applied,           \* a pure function of the program, its arguments and what it returned
  now,               \* the start route: what Date.now() returns
  migrationJobs,     \* global.migrationJobs: job id to migration promise
  promises,          \* the migration promises the start route created, in order
  polls              \* history: the get-status requests and their responses

\* the state of the start and status routes
routeVars == <<now, migrationJobs, promises, polls>>

\* no request has reached the routes: global.migrationJobs is undefined
RoutesIdle ==
  /\ now = 0
  /\ migrationJobs = <<>>
  /\ promises = <<>>
  /\ polls = <<>>

vars == <<collection, news_channels, news_articles, batchSize, defaultChannelId,
          client, pc, call, options, channelId, migrationJob, lastId,
          totalProcessed, totalFailed, allErrors, posts, idx, results, outcome,
          thrown, requests, fetches, handed, outcomes, statuses, runs, prev,
          openai, vectorSize, qdrant_points, vArticles, vpc, vi, points, voutcome,
          embedLog, upserts,
          mfn, mopts, mpc, result, totalPosts, currentOffset, vectorBatch, uuids,
          moutcome, mfetches, mwrites, qdrant_collection, initLog, ensured, jobs,
          responses, routeVars, cleaned, applied>>

\* the state of one batch migration (migrateToVectorOnly, migrateWithVectors)
runVars == <<mfn, mopts, mpc, result, totalPosts, currentOffset, vectorBatch,
             uuids, moutcome, mfetches, mwrites>>
\* what neither migrateAllPosts nor storeArticlesBatch reads or writes
restVars == <<runVars, qdrant_collection, initLog, ensured, jobs, responses, routeVars, cleaned,
             applied>>

vectorVars == <<openai, vectorSize, qdrant_points, vArticles, vpc, vi, points,
                voutcome, embedLog, upserts>>
etlVars == <<collection, news_channels, news_articles, batchSize, defaultChannelId,
             client, pc, call, options, channelId, migrationJob, lastId,
             totalProcessed, totalFailed, allErrors, posts, idx, results, outcome,
             thrown, requests, fetches, handed, outcomes, statuses, runs, prev,
             restVars>>

\* the state of migrateAllPosts but for the rows of news_articles, the state of
\* a storeArticlesBatch call in steps, and the histories of the other handlers
callVars == <<collection, batchSize, news_channels, defaultChannelId, client, pc,
              call, options, channelId, migrationJob, lastId, totalProcessed,
              totalFailed, allErrors, posts, idx, results, outcome, thrown, requests,
              fetches, handed, outcomes, statuses, runs, prev>>
stepVars == <<openai, vectorSize, vArticles, vpc, vi, points, voutcome, embedLog>>
sideVars == <<ensured, jobs, responses, routeVars, cleaned, applied>>

\* what no step of migrateAllPosts changes
fixedVars == <<collection, batchSize, runs, prev, vectorVars, restVars>>
loopVars == <<lastId, totalProcessed, totalFailed, allErrors>>
batchVars == <<posts, idx, results, outcomes>>

(***************************************************************************)
(* Values.                                                                  *)
(***************************************************************************)
DefaultChannelName == "MongoDB Import"
ResumedChannelName == "MongoDB Import (Resumed)"

NoError == [isError |-> FALSE, message |-> ""]
\* what the MongoDB driver rejects with: an Error
MongoError == [isError |-> TRUE, message |-> "MongoNetworkError"]
\* what supabase-js hands back as error and the api wrappers throw: an Error
\* in recent releases, a plain object in earlier ones
SupabaseErrors == {[isError |-> TRUE, message |-> "PostgrestError"],
                   [isError |-> FALSE, message |-> "PostgrestError"]}

\* error instanceof Error ? error.message : 'Unknown error'
ErrorMessage(e) == IF e.isError THEN e.message ELSE "Unknown error"

\* the state of migrateAllPosts before const migrationJob is initialized
NoJob == [status |-> "none", target_channel_id |-> 0, total_records |-> 0,
          processed_records |-> 0, failed_records |-> 0, completed_at |-> FALSE,
          error_message |-> "", last_processed_id |-> NoId]

\* const migrationJob: MigrationJob = { ..., status: 'running', ... }
NewJob(chId, totalCount) ==
  [status |-> "running", target_channel_id |-> chId, total_records |-> totalCount,
   processed_records |-> 0, failed_records |-> 0, completed_at |-> FALSE,
   error_message |-> "", last_processed_id |-> NoId]

EmptyResults == [successful |-> 0, failed |-> 0, skipped |-> 0, errors |-> <<>>]

NoCall == [fn |-> "none", lastProcessedId |-> NoId, channelId |-> 0]

NoOptions == [fromDate |-> NoDate, toDate |-> NoDate,
              channelName |-> DefaultChannelName, dryRun |-> FALSE]

\* the sources the model draws: every sequence of at most MaxPosts documents
RECURSIVE KindSeqs(_)
KindSeqs(n) ==
  IF n = 0 THEN {<<>>}
  ELSE LET shorter == KindSeqs(n - 1)
       IN shorter \cup {Append(s, k) : s \in {x \in shorter : Len(x) = n - 1},
                                       k \in PostKinds}

Sources == {[n \in 1..Len(ks) |-> PostOfKind(ks[n], n)] : ks \in KindSeqs(MaxPosts)}

NoPrev == [fn |-> "none", options |-> NoOptions, outcome |-> "pending",
           job |-> NoJob, writesOk |-> TRUE]

\* a VectorService on which nothing has been called
VectorIdle ==
  /\ openai = FALSE
  /\ vectorSize = DefaultVectorSize
  /\ qdrant_points = {}
  /\ vArticles = <<>>
  /\ vpc = "idle"
  /\ vi = 0
  /\ points = <<>>
  /\ voutcome = "pending"
  /\ embedLog = <<>>
  /\ upserts = <<>>

NoResult == [success |-> TRUE, processed |-> 0, inserted |-> 0, skipped |-> 0,
             errors |-> 0, error_details |-> <<>>]

NoRunOptions == [limit |-> 0, offset |-> 0, dryRun |-> FALSE, enableVectors |-> FALSE]

\* no batch migration has been called
RunIdle ==
  /\ mfn = "none"
  /\ mopts = NoRunOptions
  /\ mpc = "idle"
  /\ result = NoResult
  /\ totalPosts = 0
  /\ currentOffset = 0
  /\ vectorBatch = <<>>
  /\ uuids = 0
  /\ moutcome = "pending"
  /\ mfetches = <<>>
  /\ mwrites = <<>>

\* a vector index without the collection
NoCollection == [exists |-> FALSE, size |-> 0, distance |-> "", indexes |-> {}]

CollectionIdle == qdrant_collection = NoCollection /\ initLog = <<>>

NoCleaned == [input |-> <<>>, once |-> <<>>, twice |-> <<>>, done |-> FALSE]

\* no function has been applied
NoApplied == [fn |-> "none", args |-> <<>>, returned |-> <<>>]

\* nothing but migrateAllPosts and storeArticlesBatch is in use
RestIdle ==
  /\ RunIdle
  /\ CollectionIdle
  /\ ensured = <<>>
  /\ jobs = <<>>
  /\ responses = <<>>
  /\ RoutesIdle
  /\ cleaned = NoCleaned
  /\ applied = NoApplied

\* an ETLService on which nothing has been called
EtlIdle ==
  /\ runs = 1
  /\ prev = NoPrev
  /\ news_articles = <<>>
  /\ defaultChannelId = 0
  /\ client = "none"
  /\ pc = "idle"
  /\ call = NoCall
  /\ options = NoOptions
  /\ channelId = 0
  /\ migrationJob = NoJob
  /\ lastId = NoId
  /\ totalProcessed = 0
  /\ totalFailed = 0
  /\ allErrors = <<>>
  /\ posts = <<>>
  /\ idx = 0
  /\ results = EmptyResults
  /\ outcome = "pending"
  /\ thrown = NoError
  /\ requests = <<>>
  /\ fetches = <<>>
  /\ handed = <<>>
  /\ outcomes = <<>>
  /\ statuses = <<>>

Init ==
  /\ VectorIdle
  /\ EtlIdle
  /\ RestIdle
  /\ collection \in Sources
  /\ news_channels \in {<<>>, <<[id |-> 1, name |-> DefaultChannelName]>>}
  /\ batchSize \in 1..MaxBatch


(***************************************************************************)
(* ETLService: the orchestrator.                                            *)
(***************************************************************************)
\* a write request sent to the relational store and whether it succeeded
ChannelRequest(ok) == [target |-> "news_channels", op |-> "insert", ok |-> ok]
ArticleRequest(ok) == [target |-> "news_articles", op |-> "insert", ok |-> ok]

\* history: the status a job takes next, when it differs from its last one
Track(hist, status) ==
  IF hist # <<>> /\ hist[Len(hist)] = status THEN hist ELSE Append(hist, status)

\* channels.find(c => c.name === channelName): its id, 0 when there is none
FindChannel(channels, name) ==
  IF \E k \in 1..Len(channels) : channels[k].name = name
  THEN channels[CHOOSE k \in 1..Len(channels) : channels[k].name = name].id
  ELSE 0

\* the options resumeMigration passes on to migrateAllPosts
ResumeOptions(lastProcessedId, chId) ==
  [fromDate |-> NoDate, toDate |-> NoDate,
   channelName |-> ResumedChannelName, dryRun |-> FALSE]

\* let lastId: string | undefined, as migrateAllPosts starts its loop
InitialCursor(c) == NoId

\* what one pass of the for..of loop of processBatch makes of a record:
\* insertError is NoError when newsArticlesApi.create was not called or succeeded
RecordOutcome(transformation, insertError) ==
  IF ~transformation.success
  THEN IF transformation.skipped THEN "skipped" ELSE "transformError"
  ELSE IF ~transformation.hasData THEN "transformError"
  ELSE IF insertError # NoError THEN "insertError"
  ELSE "inserted"

\* a faulty variant of RecordResult: a rejected insert is logged but not counted
RecordResult_InsertErrorLost(res, post, transformation, insertError) ==
  LET what == RecordOutcome(transformation, insertError)
  IN CASE what = "skipped" -> [res EXCEPT !.skipped = @ + 1]
       [] what = "transformError" ->
            [res EXCEPT !.failed = @ + 1,
                        !.errors = Append(@, [post |-> post._id.v,
                                              error |-> transformation.error])]
       [] what = "insertError" -> res
       [] OTHER -> [res EXCEPT !.successful = @ + 1]

\* a faulty variant of RecordResult: a skipped record is counted nowhere
RecordResult_SkipUncounted(res, post, transformation, insertError) ==
  LET what == RecordOutcome(transformation, insertError)
  IN CASE what = "skipped" -> res
       [] what = "transformError" ->
            [res EXCEPT !.failed = @ + 1,
                        !.errors = Append(@, [post |-> post._id.v,
                                              error |-> transformation.error])]
       [] what = "insertError" ->
            [res EXCEPT !.failed = @ + 1,
                        !.errors = Append(@, [post |-> post._id.v,
                                              error |-> ErrorMessage(insertError)])]
       [] OTHER -> [res EXCEPT !.successful = @ + 1]

\* the counters and the error list of processBatch after that pass
RecordResult(res, post, transformation, insertError) ==
  LET what == RecordOutcome(transformation, insertError)
  IN CASE what = "skipped" -> [res EXCEPT !.skipped = @ + 1]
       [] what = "transformError" ->
            [res EXCEPT !.failed = @ + 1,
                        !.errors = Append(@, [post |-> post._id.v,
                                              error |-> transformation.error])]
       [] what = "insertError" ->
            [res EXCEPT !.failed = @ + 1,
                        !.errors = Append(@, [post |-> post._id.v,
                                              error |-> ErrorMessage(insertError)])]
       [] OTHER -> [res EXCEPT !.successful = @ + 1]

\* a faulty variant of BatchCursor: the cursor is not moved
BatchCursor_Stale(batch) == NoId

\* a faulty variant of BatchCursor: the cursor is taken from the first record
BatchCursor_First(batch) == IdToString(batch[1]._id)

\* lastPost._id.toString() of a fetched batch
BatchCursor(batch) == IdToString(batch[Len(batch)]._id)

\* a faulty variant of FinalStatus: the final status overwrites a failure
FinalStatus_Overwrite(status) == "completed"

\* if (migrationJob.status !== 'failed') migrationJob.status = 'completed'
FinalStatus(status) == IF status # "failed" THEN "completed" ELSE status

\* a faulty variant of FailJob: the catch block drops the message and the progress
FailJob_Reset(job, e) ==
  [job EXCEPT !.status = "failed", !.processed_records = 0, !.failed_records = 0]

\* the catch block of the batch loop
FailJob(job, e) ==
  [job EXCEPT !.status = "failed", !.error_message = ErrorMessage(e)]

\* the code after the loop: completed_at and the final status
Finalize(job) ==
  [job EXCEPT !.completed_at = TRUE, !.status = FinalStatus(@)]

\* an exception that leaves the try block of migrateAllPosts
Throw(e) ==
  /\ outcome' = "thrown"
  /\ thrown' = e
  /\ pc' = "finally"

\* a caller invokes migrateAllPosts(options) on a new ETLService
CallMigrateAllPosts(dry, from) ==
  /\ pc = "idle"
  /\ call' = [fn |-> "migrateAllPosts", lastProcessedId |-> NoId, channelId |-> 0]
  /\ options' = [fromDate |-> from, toDate |-> NoDate,
                 channelName |-> DefaultChannelName, dryRun |-> dry]
  /\ pc' = "connect"
  /\ UNCHANGED <<fixedVars, news_channels, news_articles, defaultChannelId, client,
                 channelId, migrationJob, loopVars, batchVars, outcome, thrown,
                 requests, fetches, handed, statuses>>

\* a caller invokes resumeMigration(lastProcessedId, channelId) on a new ETLService
CallResumeMigration(cursor, chId) ==
  /\ pc = "idle"
  /\ call' = [fn |-> "resumeMigration", lastProcessedId |-> cursor, channelId |-> chId]
  /\ options' = ResumeOptions(cursor, chId)
  /\ pc' = "connect"
  /\ UNCHANGED <<fixedVars, news_channels, news_articles, defaultChannelId, client,
                 channelId, migrationJob, loopVars, batchVars, outcome, thrown,
                 requests, fetches, handed, statuses>>

\* await this.mongoService.connect(), before the try block
Connect ==
  /\ pc = "connect"
  /\ \/ /\ client' = "connected"
        /\ pc' = "ensureChannel"
        /\ UNCHANGED <<outcome, thrown>>
     \/ /\ client' = "created"
        /\ outcome' = "thrown"
        /\ thrown' = MongoError
        /\ pc' = "done"
  /\ UNCHANGED <<fixedVars, news_channels, news_articles, defaultChannelId, call,
                 options, channelId, migrationJob, loopVars, batchVars, requests,
                 fetches, handed, statuses>>

\* ensureDefaultChannel up to the lookup: the cached id, else getAll and find
EnsureDefaultChannel ==
  /\ pc = "ensureChannel"
  /\ \/ /\ defaultChannelId # 0
        /\ channelId' = defaultChannelId
        /\ pc' = "count"
        /\ UNCHANGED <<defaultChannelId, outcome, thrown>>
     \/ /\ defaultChannelId = 0
        /\ FindChannel(news_channels, options.channelName) # 0
        /\ defaultChannelId' = FindChannel(news_channels, options.channelName)
        /\ channelId' = defaultChannelId'
        /\ pc' = "count"
        /\ UNCHANGED <<outcome, thrown>>
     \/ /\ defaultChannelId = 0
        /\ FindChannel(news_channels, options.channelName) = 0
        /\ pc' = "createChannel"
        /\ UNCHANGED <<defaultChannelId, channelId, outcome, thrown>>
     \/ /\ defaultChannelId = 0
        /\ \E e \in SupabaseErrors : Throw(e)
        /\ UNCHANGED <<defaultChannelId, channelId>>
  /\ UNCHANGED <<fixedVars, news_channels, news_articles, client, call, options,
                 migrationJob, loopVars, batchVars, requests, fetches, handed,
                 statuses>>

\* ensureDefaultChannel: newsChannelsApi.create(newChannelRequest)
CreateChannel ==
  /\ pc = "createChannel"
  /\ \/ /\ requests' = Append(requests, ChannelRequest(TRUE))
        /\ news_channels' = Append(news_channels,
                                   [id |-> Len(news_channels) + 1,
                                    name |-> options.channelName])
        /\ defaultChannelId' = Len(news_channels) + 1
        /\ channelId' = defaultChannelId'
        /\ pc' = "count"
        /\ UNCHANGED <<outcome, thrown>>
     \/ /\ requests' = Append(requests, ChannelRequest(FALSE))
        /\ \E e \in SupabaseErrors : Throw(e)
        /\ UNCHANGED <<news_channels, defaultChannelId, channelId>>
  /\ UNCHANGED <<fixedVars, news_articles, client, call, options, migrationJob,
                 loopVars, batchVars, fetches, handed, statuses>>

\* getPostCount, the job record, and the dry-run return
CountPosts ==
  /\ pc = "count"
  /\ \/ /\ migrationJob' =
             IF options.dryRun
             THEN [NewJob(channelId, getPostCount(collection, options.fromDate,
                                                  options.toDate))
                     EXCEPT !.status = "completed"]
             ELSE NewJob(channelId, getPostCount(collection, options.fromDate,
                                                 options.toDate))
        /\ statuses' = IF options.dryRun THEN <<"running", "completed">>
                        ELSE <<"running">>
        /\ lastId' = InitialCursor(call)
        /\ totalProcessed' = 0
        /\ totalFailed' = 0
        /\ allErrors' = <<>>
        /\ IF options.dryRun
           THEN /\ outcome' = "returned"
                /\ pc' = "finally"
           ELSE /\ outcome' = outcome
                /\ pc' = "fetch"
        /\ UNCHANGED thrown
     \/ /\ Throw(MongoError)
        /\ UNCHANGED <<migrationJob, loopVars, statuses>>
  /\ UNCHANGED <<fixedVars, news_channels, news_articles, defaultChannelId, client,
                 call, options, channelId, batchVars, requests, fetches, handed>>

\* one pass of while (hasMore) up to the call of processBatch: fetchPosts, the
\* empty batch that ends the loop, and the catch block
FetchBatch ==
  /\ pc = "fetch"
  /\ fetches' = Append(fetches, lastId)
  /\ \/ LET batch == fetchPosts(collection, batchSize, 0, options.fromDate,
                                options.toDate, lastId)
        IN IF batch = <<>>
           THEN /\ migrationJob' = Finalize(migrationJob)
                /\ statuses' = Track(statuses, migrationJob'.status)
                /\ outcome' = "returned"
                /\ pc' = "finally"
                /\ UNCHANGED <<batchVars, handed>>
           ELSE /\ posts' = batch
                /\ idx' = 1
                /\ results' = EmptyResults
                /\ outcomes' = <<>>
                /\ handed' = handed \o [k \in 1..Len(batch) |-> batch[k]._id.v]
                /\ pc' = "processBatch"
                /\ UNCHANGED <<migrationJob, outcome, statuses>>
     \/ /\ migrationJob' = Finalize(FailJob(migrationJob, MongoError))
        /\ statuses' = Track(Track(statuses, FailJob(migrationJob, MongoError).status),
                             migrationJob'.status)
        /\ outcome' = "returned"
        /\ pc' = "finally"
        /\ UNCHANGED <<batchVars, handed>>
  /\ UNCHANGED <<fixedVars, news_channels, news_articles, defaultChannelId, client,
                 call, options, channelId, loopVars, thrown, requests>>

\* processBatch: one pass of for (const post of posts)
ProcessPost ==
  /\ pc = "processBatch"
  /\ idx <= Len(posts)
  /\ \E post \in {posts[idx]} : \E transformation \in {transformPost(post, channelId)} :
        IF transformation.success /\ transformation.hasData
        THEN /\ \/ /\ requests' = Append(requests, ArticleRequest(TRUE))
                   /\ news_articles' = Append(news_articles, transformation.data)
                   /\ results' = RecordResult(results, post, transformation, NoError)
                   /\ outcomes' = Append(outcomes,
                                         RecordOutcome(transformation, NoError))
                \/ /\ requests' = Append(requests, ArticleRequest(FALSE))
                   /\ \E e \in SupabaseErrors :
                        /\ results' = RecordResult(results, post, transformation, e)
                        /\ outcomes' = Append(outcomes,
                                              RecordOutcome(transformation, e))
                   /\ UNCHANGED news_articles
        ELSE /\ results' = RecordResult(results, post, transformation, NoError)
             /\ outcomes' = Append(outcomes, RecordOutcome(transformation, NoError))
             /\ UNCHANGED <<news_articles, requests>>
  /\ idx' = idx + 1
  /\ UNCHANGED <<fixedVars, news_channels, defaultChannelId, client, pc, call,
                 options, channelId, migrationJob, loopVars, posts, outcome, thrown,
                 fetches, handed, statuses>>

\* the rest of the pass once processBatch has returned: totals, progress, cursor
EndBatch ==
  /\ pc = "processBatch"
  /\ idx > Len(posts)
  /\ totalProcessed' = totalProcessed + results.successful + results.skipped
  /\ totalFailed' = totalFailed + results.failed
  /\ allErrors' = allErrors \o results.errors
  /\ lastId' = BatchCursor(posts)
  /\ migrationJob' = [migrationJob EXCEPT !.processed_records = totalProcessed',
                                          !.failed_records = totalFailed',
                                          !.last_processed_id = lastId']
  /\ pc' = "fetch"
  /\ UNCHANGED <<fixedVars, news_channels, news_articles, defaultChannelId, client,
                 call, options, channelId, batchVars, outcome, thrown, requests,
                 fetches, handed, statuses>>

\* a faulty variant of Disconnect: the finally block returns with the client open
Disconnect_KeepsClient ==
  /\ pc = "finally"
  /\ pc' = "done"
  /\ UNCHANGED <<fixedVars, news_channels, news_articles, defaultChannelId, call,
                 options, channelId, migrationJob, loopVars, batchVars, outcome,
                 thrown, requests, fetches, handed, statuses, client>>

\* finally { await this.mongoService.disconnect() }
Disconnect ==
  /\ pc = "finally"
  /\ client' = "none"
  /\ pc' = "done"
  /\ UNCHANGED <<fixedVars, news_channels, news_articles, defaultChannelId, call,
                 options, channelId, migrationJob, loopVars, batchVars, outcome,
                 thrown, requests, fetches, handed, statuses>>

\* the cursors a caller may have recorded: the string form of a source identifier
RecordedCursors == {IdToString(ObjectId(n)) : n \in 1..MaxPosts}

Next ==
  \/ \E dry \in BOOLEAN, from \in {NoDate, 2} : CallMigrateAllPosts(dry, from)
  \/ \E c \in RecordedCursors, ch \in {1} : CallResumeMigration(c, ch)
  \/ Connect
  \/ EnsureDefaultChannel
  \/ CreateChannel
  \/ CountPosts
  \/ FetchBatch
  \/ ProcessPost
  \/ EndBatch
  \/ Disconnect

Spec == Init /\ [][Next]_vars


(***************************************************************************)
(* Properties of the orchestrator.                                          *)
(***************************************************************************)
Failures == {"transformError", "insertError"}

\* number of positions of the sequence s whose element is in the set S
CountIn(s, S) == Cardinality({k \in 1..Len(s) : s[k] \in S})

\* every write request of the run succeeded
AllWritesOk == \A k \in 1..Len(requests) : requests[k].ok

\* C1: in processBatch, a record whose transform or relational insert fails adds
\* exactly one to the failed counter and one entry to the error list and changes
\* no other counter; the loop moves on to the next record, the batch ends only
\* after its last record, and the job is neither failed nor settled by it.
C1_FailureIsolation ==
  [][/\ (pc = "processBatch" /\ idx <= Len(posts)) =>
          /\ pc' = "processBatch"
          /\ idx' = idx + 1
          /\ Len(outcomes') = Len(outcomes) + 1
          /\ migrationJob' = migrationJob
          /\ outcome' = "pending"
          /\ (outcomes'[Len(outcomes')] \in Failures =>
                /\ results'.failed = results.failed + 1
                /\ Len(results'.errors) = Len(results.errors) + 1
                /\ results'.successful = results.successful
                /\ results'.skipped = results.skipped)
     /\ (pc = "processBatch" /\ pc' # "processBatch") =>
          /\ Len(outcomes) = Len(posts)
          /\ pc' = "fetch"
          /\ migrationJob'.status = "running"
          /\ migrationJob'.failed_records =
               migrationJob.failed_records + CountIn(outcomes, Failures)
    ]_vars

\* C1 witness: a batch whose first record failed on insert and whose second
\* record was inserted afterwards, the job still running.
C1_Witness ==
  /\ pc = "processBatch"
  /\ Len(outcomes) = 2
  /\ outcomes[1] = "insertError"
  /\ outcomes[2] = "inserted"
  /\ results.failed = 1
  /\ migrationJob.status = "running"

\* C2: once a fetched non-empty batch has been processed, last_processed_id is
\* the identifier (in string form) of the last record of that batch, the largest
\* of the batch, whatever became of its records.
C2_ResumptionCursor ==
  (posts # <<>> /\ pc # "processBatch") =>
     /\ migrationJob.last_processed_id = IdToString(posts[Len(posts)]._id)
     /\ \A k \in 1..Len(posts) : posts[k]._id.v <= migrationJob.last_processed_id.v

\* C2 witness: a processed batch of two records, the first inserted and the last
\* one failed.
C2_Witness ==
  /\ pc = "fetch"
  /\ Len(posts) = 2
  /\ outcomes[1] = "inserted"
  /\ outcomes[2] \in Failures
  /\ migrationJob.last_processed_id = IdToString(posts[2]._id)

\* C3: resumeMigration(lastProcessedId, channelId) hands to processBatch no
\* record whose identifier is less than or equal to lastProcessedId, and reads
\* from that cursor on.
C3_ResumeAfterCursor ==
  call.fn = "resumeMigration" =>
     /\ \A k \in 1..Len(handed) : handed[k] > call.lastProcessedId.v
     /\ (fetches # <<>> => fetches[1] = call.lastProcessedId)

C5_FetchErrorFatal ==
  [][/\ (pc = "fetch" /\ migrationJob'.status = "failed") =>
          /\ migrationJob'.error_message = MongoError.message
          /\ migrationJob'.processed_records = migrationJob.processed_records
          /\ migrationJob'.failed_records = migrationJob.failed_records
          /\ migrationJob'.last_processed_id = migrationJob.last_processed_id
          /\ migrationJob.processed_records = totalProcessed
          /\ migrationJob.failed_records = totalFailed
          /\ outcome' = "returned"
          /\ pc' = "finally"
     /\ migrationJob.status = "failed" =>
          /\ migrationJob' = migrationJob
          /\ fetches' = fetches
          /\ pc' # "fetch"
    ]_vars

\* C5 witness: the second fetch failed after a first batch that made progress.
C5_Witness ==
  /\ migrationJob.status = "failed"
  /\ Len(fetches) = 2
  /\ migrationJob.processed_records > 0
  /\ migrationJob.failed_records > 0
  /\ migrationJob.last_processed_id # NoId

\* C6: a run started with dryRun = true sends no write request to a target store.
C6_DryRunNoWrites ==
  options.dryRun => requests = <<>>

\* the records of the source that the run's filter matches
Matching == SelectSeq(collection, LAMBDA p :
              QueryMatches(p, PublishedStatus, options.fromDate, options.toDate, NoId))

\* C8: with every remote call succeeding and no record raising in the transform,
\* a dryRun = false run of migrateAllPosts ends completed with processed = v + s,
\* skipped = s, failed = 0 and v rows inserted, v and s being the numbers of
\* matching records that pass and fail validation.  (The status path of the
\* claim is the subject of C4.)
C8_EndToEnd ==
  (/\ pc = "done"
   /\ call.fn = "migrateAllPosts"
   /\ ~options.dryRun
   /\ outcome = "returned"
   /\ migrationJob.status = "completed"
   /\ AllWritesOk
   /\ \A k \in 1..Len(Matching) : ~ValidationThrows(Matching[k]))
  => LET v == Len(SelectSeq(Matching, LAMBDA p : validatePostContent(p).isValid))
         s == Len(Matching) - v
     IN /\ migrationJob.processed_records = v + s
        /\ migrationJob.processed_records - Len(news_articles) = s
        /\ migrationJob.failed_records = 0
        /\ Len(news_articles) = v

\* C9: when no record matches the date range, the run sends no write request,
\* and it ends completed with total = 0 and processed = 0.
C9_EmptySource ==
  (call.fn = "migrateAllPosts" /\ Len(Matching) = 0) =>
     /\ requests = <<>>
     /\ (pc = "done" /\ outcome = "returned" =>
           /\ migrationJob.status = "completed"
           /\ migrationJob.total_records = 0
           /\ migrationJob.processed_records = 0)


(***************************************************************************)
(* A caller that starts a migration again once the previous call settled,   *)
(* as the start route does on every request: a new ETLService and a new     *)
(* MongoDBService over the same source and the same target stores.          *)
(***************************************************************************)
InitRerun ==
  /\ Init
  /\ Len(collection) <= MaxRerunPosts

StartAgain ==
  /\ pc = "done"
  /\ runs < MaxRuns
  /\ runs' = runs + 1
  /\ prev' = [fn |-> call.fn, options |-> options, outcome |-> outcome,
              job |-> migrationJob,
              writesOk |-> \A k \in 1..Len(requests) : requests[k].ok]
  /\ defaultChannelId' = 0
  /\ client' = "none"
  /\ pc' = "idle"
  /\ call' = NoCall
  /\ options' = NoOptions
  /\ channelId' = 0
  /\ migrationJob' = NoJob
  /\ lastId' = NoId
  /\ totalProcessed' = 0
  /\ totalFailed' = 0
  /\ allErrors' = <<>>
  /\ posts' = <<>>
  /\ idx' = 0
  /\ results' = EmptyResults
  /\ outcome' = "pending"
  /\ thrown' = NoError
  /\ requests' = <<>>
  /\ fetches' = <<>>
  /\ handed' = <<>>
  /\ outcomes' = <<>>
  /\ statuses' = <<>>
  /\ UNCHANGED <<collection, batchSize, news_channels, news_articles, vectorVars,
                 restVars>>

NextRerun ==
  \/ Next
  \/ StartAgain

SpecRerun == InitRerun /\ [][NextRerun]_vars

\* C7: a dry run of migrateAllPosts reports the total and processed counts that
\* a dryRun = false run with the same filter over the same source reports when
\* every remote call of both runs succeeds.
C7_DryRunCounts ==
  (/\ runs = 2
   /\ pc = "done"
   /\ prev.fn = "migrateAllPosts" /\ call.fn = "migrateAllPosts"
   /\ prev.options.dryRun /\ ~options.dryRun
   /\ prev.options.fromDate = options.fromDate
   /\ prev.outcome = "returned" /\ outcome = "returned"
   /\ prev.job.status = "completed" /\ migrationJob.status = "completed"
   /\ prev.writesOk /\ AllWritesOk)
  => /\ prev.job.total_records = migrationJob.total_records
     /\ prev.job.processed_records = migrationJob.processed_records



(***************************************************************************)
(* VectorService: embeddings and the batch write to the vector index.      *)
(* A vector is represented by the path that produced it and by its length; *)
(* its numeric entries are not part of this model.                         *)
(***************************************************************************)
\* constructor: config?.vectorSize || 1536 (0 stands for no size given)
ConfiguredSize(given) == IF given = 0 THEN DefaultVectorSize ELSE given

\* generateSimpleEmbedding: new Array(this.config.vectorSize), filled locally
generateSimpleEmbedding(text, size) == [by |-> "simple", size |-> size]

\* response.data[0].embedding of the remote model
RemoteEmbedding == [by |-> "openai", size |-> OpenAIDimension]

\* what the remote embedding call can do: it is made only when this.openai is set
RemoteOutcomes(configured) == IF configured THEN {"ok", "failed"} ELSE {"none"}

\* a faulty variant of generateEmbedding: a failed remote call is rethrown
generateEmbedding_Rethrow(text, size, remote) ==
  IF remote = "ok" THEN [threw |-> FALSE, vector |-> RemoteEmbedding]
  ELSE IF remote = "failed" THEN [threw |-> TRUE, vector |-> <<>>]
  ELSE [threw |-> FALSE, vector |-> generateSimpleEmbedding(text, size)]

\* generateEmbedding: the remote vector, or the local one when there is no
\* remote client or its call failed
generateEmbedding(text, size, remote) ==
  IF remote = "ok" THEN [threw |-> FALSE, vector |-> RemoteEmbedding]
  ELSE [threw |-> FALSE, vector |-> generateSimpleEmbedding(text, size)]

\* a NewsArticleVector; published_at is NoDate when the source had no date
ArticleKinds == {"dated", "undated"}
ArticleOfKind(kind, n) ==
  [id |-> n, title |-> <<"t">>, content |-> <<"c">>,
   published_at |-> IF kind = "dated" THEN 2 ELSE NoDate,
   original_mongo_id |-> IdToString(ObjectId(n))]
ArticleBatches ==
  UNION {{[k \in 1..n |-> ArticleOfKind(kinds[k], k)] : kinds \in [1..n -> ArticleKinds]}
         : n \in 0..MaxArticles}

\* `${article.title}\n\n${article.content}`
contentForEmbedding(article) == article.title \o <<"\n", "\n">> \o article.content

\* article.published_at.toISOString() throws when there is no date
PayloadThrows(article) == article.published_at = NoDate

Point(article, embedding) ==
  [id |-> article.id, vector |-> embedding,
   payload |-> [title |-> article.title, content |-> article.content,
                published_at |-> article.published_at,
                original_mongo_id |-> article.original_mongo_id]]

\* qdrant.upsert: a point replaces the stored point of the same id
Upserted(stored, pts) ==
  {p \in stored : \A k \in 1..Len(pts) : pts[k].id # p.id}
    \cup {pts[k] : k \in {j \in 1..Len(pts) :
                          \A l \in (j + 1)..Len(pts) : pts[l].id # pts[j].id}}

\* storeArticlesBatch(articles): an empty batch returns at once
CallStoreArticlesBatch(articles) ==
  /\ vpc = "idle"
  /\ vArticles' = articles
  /\ IF Len(articles) = 0
     THEN vpc' = "done" /\ voutcome' = "returned" /\ vi' = vi
     ELSE vpc' = "prepare" /\ voutcome' = voutcome /\ vi' = 1
  /\ points' = <<>>
  /\ UNCHANGED <<openai, vectorSize, qdrant_points, embedLog, upserts, etlVars>>

\* one turn of the for..of loop: embedding, payload, points.push; an error
\* in any of them is logged and the loop goes on
PrepareArticle ==
  /\ vpc = "prepare"
  /\ \E article \in {vArticles[vi]} :
     \E remote \in RemoteOutcomes(openai) :
     \E embedding \in {generateEmbedding(contentForEmbedding(article), vectorSize, remote)} :
       /\ embedLog' = Append(embedLog, [remote |-> remote, threw |-> embedding.threw])
       /\ points' = IF embedding.threw \/ PayloadThrows(article)
                    THEN points
                    ELSE Append(points, Point(article, embedding.vector))
  /\ IF vi < Len(vArticles)
     THEN vi' = vi + 1 /\ vpc' = vpc
     ELSE vi' = vi /\ vpc' = "upsert"
  /\ UNCHANGED <<openai, vectorSize, qdrant_points, vArticles, voutcome, upserts, etlVars>>

\* a faulty variant of UpsertPoints: the request is sent whether or not a
\* point was prepared
UpsertPoints_EmptyRequest ==
  /\ vpc = "upsert"
  /\ vpc' = "done"
  /\ \E ok \in BOOLEAN :
       /\ upserts' = Append(upserts, [wait |-> TRUE, points |-> points, ok |-> ok])
       /\ qdrant_points' = IF ok THEN Upserted(qdrant_points, points) ELSE qdrant_points
       /\ voutcome' = IF ok THEN "returned" ELSE "thrown"
  /\ UNCHANGED <<openai, vectorSize, vArticles, vi, points, embedLog, etlVars>>

\* after the loop: one upsert of all prepared points, awaited; its failure is
\* rethrown; with no point there is no request
UpsertPoints ==
  /\ vpc = "upsert"
  /\ vpc' = "done"
  /\ IF Len(points) > 0
     THEN \E ok \in BOOLEAN :
            /\ upserts' = Append(upserts, [wait |-> TRUE, points |-> points, ok |-> ok])
            /\ qdrant_points' = IF ok THEN Upserted(qdrant_points, points) ELSE qdrant_points
            /\ voutcome' = IF ok THEN "returned" ELSE "thrown"
     ELSE /\ voutcome' = "returned"
          /\ UNCHANGED <<upserts, qdrant_points>>
  /\ UNCHANGED <<openai, vectorSize, vArticles, vi, points, embedLog, etlVars>>

\* a VectorService as its constructor leaves it, and an ETLService not in use
InitVector ==
  /\ EtlIdle
  /\ RestIdle
  /\ collection = <<>>
  /\ news_channels = <<>>
  /\ batchSize = 1
  /\ openai \in BOOLEAN
  /\ vectorSize \in {ConfiguredSize(given) : given \in {0, SmallVectorSize}}
  /\ qdrant_points = {}
  /\ vArticles = <<>>
  /\ vpc = "idle"
  /\ vi = 0
  /\ points = <<>>
  /\ voutcome = "pending"
  /\ embedLog = <<>>
  /\ upserts = <<>>

NextVector ==
  \/ \E articles \in ArticleBatches : CallStoreArticlesBatch(articles)
  \/ PrepareArticle
  \/ UpsertPoints

SpecVector == InitVector /\ [][NextVector]_vars

\* the call is over and the remote embedding call was made and failed for
\* every article of a non-empty batch
AllRemoteFailed ==
  /\ vpc = "done"
  /\ Len(vArticles) > 0
  /\ Len(embedLog) = Len(vArticles)
  /\ \A k \in 1..Len(embedLog) : embedLog[k].remote = "failed"

\* the articles of the batch whose payload can be built, in batch order
Preparable(articles) == SelectSeq(articles, LAMBDA a : ~PayloadThrows(a))

\* the request carries one point per article of the sequence, in order, each
\* with the local fallback vector of the configured size
FallbackPointsFor(request, articles) ==
  /\ Len(request.points) = Len(articles)
  /\ \A k \in 1..Len(articles) :
       /\ request.points[k].id = articles[k].id
       /\ request.points[k].vector = generateSimpleEmbedding(<<>>, vectorSize)

\* C10 (as stated): whenever the remote embedding call failed for every
\* article of a batch of N articles, storeArticlesBatch sent an upsert with N
\* points, each carrying a fallback vector, generateEmbedding raised nothing,
\* and the call did not fail unless the index refused the request.
C10_NeverPropagates ==
  AllRemoteFailed =>
    /\ \A k \in 1..Len(embedLog) : ~embedLog[k].threw
    /\ Len(upserts) = 1
    /\ FallbackPointsFor(upserts[1], vArticles)
    /\ (upserts[1].ok => voutcome = "returned")

\* C10 (amended): generateEmbedding never raises; whenever the remote
\* embedding call failed for every article of a batch, storeArticlesBatch sent
\* exactly one awaited upsert holding one fallback-vector point for each
\* article that has a publication date (none at all when no article has one,
\* and then the call returns); the call returns and the points are stored
\* when the index accepts the request, and it throws when the index refuses.
C10_EmbeddingFailureContained ==
  /\ \A k \in 1..Len(embedLog) : ~embedLog[k].threw
  /\ AllRemoteFailed =>
       IF Preparable(vArticles) = <<>>
       THEN upserts = <<>> /\ voutcome = "returned"
       ELSE /\ Len(upserts) = 1
            /\ upserts[1].wait
            /\ FallbackPointsFor(upserts[1], Preparable(vArticles))
            /\ upserts[1].ok =>
                 /\ voutcome = "returned"
                 /\ \A k \in 1..Len(upserts[1].points) : upserts[1].points[k] \in qdrant_points
            /\ ~upserts[1].ok => voutcome = "thrown" /\ qdrant_points = {}

\* a full batch, every article dated, the remote call failed for each, and
\* the index holds one fallback-vector point per article
C10_Witness ==
  /\ AllRemoteFailed
  /\ Len(vArticles) = MaxArticles
  /\ Preparable(vArticles) = vArticles
  /\ voutcome = "returned"
  /\ Cardinality(qdrant_points) = MaxArticles
  /\ \A p \in qdrant_points : p.vector.by = "simple"

\* C11: every vector generateEmbedding returned, from the remote model or from
\* the local fallback, has the configured length vectorSize, so every point
\* prepared for the collection and every point stored in it has that length.
C11_FixedDimensionality ==
  /\ \A k \in 1..Len(points) : points[k].vector.size = vectorSize
  /\ \A p \in qdrant_points : p.vector.size = vectorSize

(***************************************************************************)
(* VectorService.initializeCollection and the batch write, as the batch    *)
(* migrations see them: a call and what it leaves behind.                   *)
(***************************************************************************)
\* the payload indexes initializeCollection creates, in the order of its requests
IndexFields == <<"channel_id", "categories", "published_at", "event_category",
                 "topics", "political_score">>

\* the requests of one call: getCollections, then getCollection when the
\* collection is there, else createCollection and one createPayloadIndex per field
LastInitRequest(coll) == IF coll.exists THEN 2 ELSE 2 + Len(IndexFields)

\* initializeCollection when its request number failAt is rejected (0: none is):
\* the collection it leaves, whether it threw, and the create requests it sent
initializeCollection(coll, size, failAt) ==
  LET fails == failAt >= 1 /\ failAt <= LastInitRequest(coll)
      sent == IF fails THEN failAt ELSE LastInitRequest(coll)
  IN IF coll.exists \/ (fails /\ failAt <= 2)
     THEN [coll |-> coll, threw |-> fails,
           creates |-> IF ~coll.exists /\ sent >= 2 THEN 1 ELSE 0]
     ELSE [coll |-> [exists |-> TRUE, size |-> size, distance |-> "Cosine",
                     indexes |-> {IndexFields[k] : k \in 1..((IF fails THEN sent - 1 ELSE sent) - 2)}],
           threw |-> fails,
           creates |-> sent - 1]

\* the points storeArticlesBatch prepares when no remote model is configured
RECURSIVE PreparedPoints(_, _)
PreparedPoints(articles, size) ==
  IF articles = <<>> THEN <<>>
  ELSE LET article == Head(articles)
           embedding == generateEmbedding(contentForEmbedding(article), size, "none")
       IN (IF embedding.threw \/ PayloadThrows(article)
           THEN <<>> ELSE <<Point(article, embedding.vector)>>)
          \o PreparedPoints(Tail(articles), size)

\* storeArticlesBatch(articles) as one call: whether it threw, the request it
\* sent (none for an empty batch or when no point could be prepared), and the
\* points stored afterwards; ok is whether the index accepts an upsert
storeArticlesBatch(articles, stored, size, ok) ==
  LET pts == PreparedPoints(articles, size)
  IN IF pts = <<>>
     THEN [threw |-> FALSE, sent |-> FALSE, points |-> <<>>, stored |-> stored]
     ELSE [threw |-> ~ok, sent |-> TRUE, points |-> pts,
           stored |-> IF ok THEN Upserted(stored, pts) ELSE stored]

(***************************************************************************)
(* The batch migrations of ETLService: migrateToVectorOnly (vector-only     *)
(* service) and migrateWithVectors.  Both read the source by skip and limit *)
(* and keep their counters in a MigrationResult.                            *)
(***************************************************************************)
MinVectorContentLength == 5   \* transformPostToVector: shortest cleaned content
TestLimit == 500              \* migrateToVectorOnly: const testLimit

NoArticle == [id |-> 0, title |-> <<>>, content |-> <<>>, published_at |-> NoDate,
              original_mongo_id |-> NoId]

\* let rawContent: the first truthy one of content.text, text, body, summary,
\* seo_description, else ''
RawContent(post) ==
  OrElse(OrElse(OrElse(OrElse(OrElse(post.text, post.altText), post.body),
                       post.summary), post.seo_description), Str(<<>>))

\* the body of transformPostToVector, validation being what validatePostContent
\* returned and uuid what randomUUID returns
VectorTransformWith(validation, mongoPost, uuid) ==
     IF validation.threw
     THEN [success |-> FALSE, skipped |-> FALSE, hasData |-> FALSE, data |-> NoArticle,
           error |-> "Transformation error"]
     ELSE IF ~validation.isValid
     THEN [success |-> FALSE, skipped |-> TRUE, hasData |-> FALSE, data |-> NoArticle,
           error |-> ""]
     ELSE LET cleanContent == cleanHtmlContent(RawContent(mongoPost).s)
          IN IF Len(Trim(cleanContent)) < MinVectorContentLength
             THEN [success |-> FALSE, skipped |-> TRUE, hasData |-> FALSE,
                   data |-> NoArticle, error |-> ""]
             ELSE [success |-> TRUE, skipped |-> FALSE, hasData |-> TRUE,
                   data |-> [id |-> uuid, title |-> mongoPost.title.s,
                             content |-> cleanContent,
                             published_at |-> OrDate(mongoPost.published_at,
                                                     mongoPost.created_at),
                             original_mongo_id |-> IdToString(mongoPost._id)],
                   error |-> ""]

transformPostToVector(mongoPost, uuid) ==
  VectorTransformWith(validatePostContent(mongoPost), mongoPost, uuid)

\* transformToVector(post, channelId, supabaseArticleId): null is NoArticle; the
\* object it returns has no original_mongo_id
transformToVector(post, chId, supabaseArticleId) ==
  IF Falsy(post.title) \/ Falsy(post.text) THEN NoArticle
  ELSE IF post.text.t # "string" THEN NoArticle
  ELSE LET cleanContent == cleanHtmlContent(post.text.s)
       IN IF Len(cleanContent) < MinContentLength THEN NoArticle
          ELSE [id |-> supabaseArticleId,
                title |-> IF post.title.t = "string" THEN post.title.s ELSE <<>>,
                content |-> cleanContent,
                published_at |-> OrDate(post.published_at, post.created_at),
                original_mongo_id |-> NoId]

\* post_id: 'batch' and post_id: 'migration', strings that are no record's identifier
BatchPostId == [bson |-> "string", v |-> 0 - 1]
MigrationPostId == [bson |-> "string", v |-> 0 - 2]

\* result.error_details.push({post_id, error})
ErrorDetail(res, postId, error) ==
  [res EXCEPT !.error_details = Append(@, [post_id |-> postId, error |-> error])]

\* what the for..of loop over a fetched batch leaves: the counters, the
\* records to write, and the number of identifiers drawn
NoBatch(res, n) == [result |-> res, data |-> <<>>, uuids |-> n]

\* a faulty variant of Tally: a record that fails validation is counted as an error
Tally_SkipIsError(acc, post, transformation, drawn) ==
  LET res == [acc.result EXCEPT !.processed = @ + 1]
  IN IF ~transformation.success \/ ~transformation.hasData
     THEN [acc EXCEPT !.result =
             ErrorDetail([res EXCEPT !.errors = @ + 1],
                         IdToString(post._id), transformation.error)]
     ELSE [result |-> res, data |-> Append(acc.data, transformation.data),
           uuids |-> drawn]

\* a faulty variant of Tally: the record is not counted as processed
Tally_Uncounted(acc, post, transformation, drawn) ==
  LET res == acc.result
  IN IF transformation.skipped
     THEN [acc EXCEPT !.result = [res EXCEPT !.skipped = @ + 1]]
     ELSE IF ~transformation.success \/ ~transformation.hasData
     THEN [acc EXCEPT !.result =
             ErrorDetail([res EXCEPT !.errors = @ + 1],
                         IdToString(post._id), transformation.error)]
     ELSE [result |-> res, data |-> Append(acc.data, transformation.data),
           uuids |-> drawn]

\* one pass of that loop once the record has been transformed; drawn is the
\* number of identifiers handed out when the record was transformed successfully
Tally(acc, post, transformation, drawn) ==
  LET res == [acc.result EXCEPT !.processed = @ + 1]
  IN IF transformation.skipped
     THEN [acc EXCEPT !.result = [res EXCEPT !.skipped = @ + 1]]
     ELSE IF ~transformation.success \/ ~transformation.hasData
     THEN [acc EXCEPT !.result =
             ErrorDetail([res EXCEPT !.errors = @ + 1],
                         IdToString(post._id), transformation.error)]
     ELSE [result |-> res, data |-> Append(acc.data, transformation.data),
           uuids |-> drawn]

\* migrateToVectorOnly: for (const post of posts), with transformPostToVector
RECURSIVE VectorOnlyLoop(_, _, _)
VectorOnlyLoop(batch, k, acc) ==
  IF k > Len(batch) THEN acc
  ELSE VectorOnlyLoop(batch, k + 1,
         Tally(acc, batch[k],
               CHOOSE x \in {transformPostToVector(batch[k], acc.uuids + 1)} : TRUE,
               acc.uuids + 1))

\* a batch write sent to a target store: how many records it carried, whether
\* the store accepted it, and whether it was sent inside the batch loop
BatchWrite(target, n, ok, inLoop) ==
  [target |-> target, n |-> n, ok |-> ok, inLoop |-> inLoop]

\* a fetchPosts call of a batch migration
BatchFetch(skip, limit, cursor) == [skip |-> skip, limit |-> limit, lastId |-> cursor]

Min(a, b) == IF a < b THEN a ELSE b

\* options.limit ? Math.min(options.limit, testLimit) : testLimit
EffectiveLimit(limit) == IF limit # 0 THEN Min(limit, TestLimit) ELSE TestLimit

\* the outer catch of migrateToVectorOnly: success = false, then rethrow
VectorOnlyThrow ==
  /\ result' = [result EXCEPT !.success = FALSE]
  /\ moutcome' = "thrown"
  /\ mpc' = "done"

\* a caller invokes migrateToVectorOnly(options) on a new vector-only ETLService
CallMigrateToVectorOnly(limit, offset, dry) ==
  /\ mpc = "idle"
  /\ mfn' = "migrateToVectorOnly"
  /\ mopts' = [limit |-> limit, offset |-> offset, dryRun |-> dry,
               enableVectors |-> TRUE]
  /\ result' = NoResult
  /\ mpc' = "start"
  /\ UNCHANGED <<totalPosts, currentOffset, vectorBatch, uuids, moutcome, mfetches,
                 mwrites, qdrant_collection, initLog, news_articles, qdrant_points,
                 upserts, callVars, stepVars, sideVars>>

\* migrateToVectorOnly up to its loop: the connection, initializeCollection,
\* getPostCount, let currentOffset
VectorOnlyStart ==
  /\ mfn = "migrateToVectorOnly"
  /\ mpc = "start"
  /\ \/ \* healthCheck is false and connect() is rejected
        /\ VectorOnlyThrow
        /\ UNCHANGED <<totalPosts, currentOffset, qdrant_collection, initLog>>
     \/ \E failAt \in 0..LastInitRequest(qdrant_collection) :
        \E init \in {initializeCollection(qdrant_collection, vectorSize, failAt)} :
          /\ qdrant_collection' = init.coll
          /\ initLog' = Append(initLog, [existed |-> qdrant_collection.exists,
                                         threw |-> init.threw,
                                         creates |-> init.creates])
          /\ IF init.threw
             THEN VectorOnlyThrow /\ UNCHANGED <<totalPosts, currentOffset>>
             ELSE \/ /\ totalPosts' = getPostCount(collection, NoDate, NoDate)
                     /\ currentOffset' = mopts.offset
                     /\ mpc' = "loop"
                     /\ UNCHANGED <<result, moutcome>>
                  \/ VectorOnlyThrow /\ UNCHANGED <<totalPosts, currentOffset>>
  /\ UNCHANGED <<mfn, mopts, vectorBatch, uuids, mfetches, mwrites, news_articles,
                 qdrant_points, upserts, callVars, stepVars, sideVars>>

\* one pass of the while loop of migrateToVectorOnly: the loop test, fetchPosts
\* by skip and limit, the transformation of the batch, storeArticlesBatch with
\* its catch block, and the new offset
VectorOnlyBatch ==
  /\ mfn = "migrateToVectorOnly"
  /\ mpc = "loop"
  /\ IF ~(currentOffset < totalPosts /\ result.processed < EffectiveLimit(mopts.limit))
     THEN /\ mpc' = "finish"
          /\ UNCHANGED <<result, currentOffset, uuids, moutcome, mfetches, mwrites,
                         qdrant_points, upserts>>
     ELSE \E remainingLimit \in
             {Min(batchSize, EffectiveLimit(mopts.limit) - result.processed)} :
          /\ mfetches' = Append(mfetches, BatchFetch(currentOffset, remainingLimit, NoId))
          /\ \/ \* fetchPosts is rejected
                /\ VectorOnlyThrow
                /\ UNCHANGED <<currentOffset, uuids, mwrites, qdrant_points, upserts>>
             \/ \E batch \in {fetchPosts(collection, remainingLimit, currentOffset,
                                         NoDate, NoDate, NoId)} :
                IF batch = <<>>
                THEN /\ mpc' = "finish"
                     /\ UNCHANGED <<result, currentOffset, uuids, moutcome, mwrites,
                                    qdrant_points, upserts>>
                ELSE \E acc \in {VectorOnlyLoop(batch, 1, NoBatch(result, uuids))} :
                     /\ uuids' = acc.uuids
                     /\ currentOffset' = currentOffset + remainingLimit
                     /\ mpc' = "loop"
                     /\ moutcome' = moutcome
                     /\ IF ~mopts.dryRun /\ acc.data # <<>>
                        THEN \E ok \in BOOLEAN :
                             \E store \in {storeArticlesBatch(acc.data, qdrant_points,
                                                              vectorSize, ok)} :
                               /\ qdrant_points' = store.stored
                               /\ upserts' = IF store.sent
                                             THEN Append(upserts,
                                                    [wait |-> TRUE, points |-> store.points,
                                                     ok |-> ok])
                                             ELSE upserts
                               /\ store.threw = ~ok
                               /\ mwrites' = Append(mwrites,
                                               BatchWrite("vectors", Len(acc.data), ok, TRUE))
                               /\ result' =
                                    IF store.threw
                                    THEN ErrorDetail(
                                           [acc.result EXCEPT !.errors = @ + Len(acc.data)],
                                           BatchPostId, "upsert rejected")
                                    ELSE [acc.result EXCEPT !.inserted = @ + Len(acc.data)]
                        ELSE /\ result' = IF mopts.dryRun
                                          THEN [acc.result EXCEPT
                                                  !.inserted = @ + Len(acc.data)]
                                          ELSE acc.result
                             /\ UNCHANGED <<mwrites, qdrant_points, upserts>>
  /\ UNCHANGED <<mfn, mopts, totalPosts, vectorBatch, qdrant_collection, initLog,
                 news_articles, callVars, stepVars, sideVars>>

\* after the loop: the statistics (a failure of getCollectionStats is caught)
\* and return result
VectorOnlyFinish ==
  /\ mfn = "migrateToVectorOnly"
  /\ mpc = "finish"
  /\ moutcome' = "returned"
  /\ mpc' = "done"
  /\ UNCHANGED <<mfn, mopts, result, totalPosts, currentOffset, vectorBatch, uuids,
                 mfetches, mwrites, qdrant_collection, initLog, news_articles,
                 qdrant_points, upserts, callVars, stepVars, sideVars>>

\* migrateWithVectors: for (const post of posts), with transformPost
RECURSIVE WithVectorsLoop(_, _, _, _)
WithVectorsLoop(batch, k, acc, chId) ==
  IF k > Len(batch) THEN acc
  ELSE WithVectorsLoop(batch, k + 1,
         Tally(acc, batch[k], CHOOSE x \in {transformPost(batch[k], chId)} : TRUE,
               acc.uuids),
         chId)

\* the vector articles made of the inserted rows: row i is paired with posts[i]
RECURSIVE VectorArticles(_, _, _, _, _)
VectorArticles(batch, n, firstId, chId, i) ==
  IF i > n THEN <<>>
  ELSE LET vectorArticle == transformToVector(batch[i], chId, firstId + i - 1)
       IN (IF vectorArticle = NoArticle THEN <<>> ELSE <<vectorArticle>>)
          \o VectorArticles(batch, n, firstId, chId, i + 1)

\* the outer catch of migrateWithVectors: the result is returned, not thrown
WithVectorsFail(res) ==
  /\ result' = ErrorDetail([res EXCEPT !.success = FALSE], MigrationPostId, "rejected")
  /\ moutcome' = "returned"
  /\ mpc' = "done"

\* a caller invokes migrateWithVectors(channelId, options)
CallMigrateWithVectors(limit, offset, dry, enableVectors) ==
  /\ mpc = "idle"
  /\ mfn' = "migrateWithVectors"
  /\ mopts' = [limit |-> limit, offset |-> offset, dryRun |-> dry,
               enableVectors |-> enableVectors]
  /\ result' = NoResult
  /\ mpc' = "start"
  /\ UNCHANGED <<totalPosts, currentOffset, vectorBatch, uuids, moutcome, mfetches,
                 mwrites, qdrant_collection, initLog, news_articles, qdrant_points,
                 upserts, callVars, stepVars, sideVars>>

\* migrateWithVectors up to its loop: initializeCollection when vectors are
\* enabled, getPostCount, let currentOffset
WithVectorsStart ==
  /\ mfn = "migrateWithVectors"
  /\ mpc = "start"
  /\ \E failAt \in (IF mopts.enableVectors
                    THEN 0..LastInitRequest(qdrant_collection) ELSE {0}) :
     \E init \in {IF mopts.enableVectors
                  THEN initializeCollection(qdrant_collection, vectorSize, failAt)
                  ELSE [coll |-> qdrant_collection, threw |-> FALSE, creates |-> 0]} :
       /\ qdrant_collection' = init.coll
       /\ initLog' = IF mopts.enableVectors
                     THEN Append(initLog, [existed |-> qdrant_collection.exists,
                                           threw |-> init.threw,
                                           creates |-> init.creates])
                     ELSE initLog
       /\ IF init.threw
          THEN WithVectorsFail(result) /\ UNCHANGED <<totalPosts, currentOffset>>
          ELSE \/ /\ totalPosts' = getPostCount(collection, NoDate, NoDate)
                  /\ currentOffset' = mopts.offset
                  /\ mpc' = "loop"
                  /\ UNCHANGED <<result, moutcome>>
               \/ WithVectorsFail(result) /\ UNCHANGED <<totalPosts, currentOffset>>
  /\ UNCHANGED <<mfn, mopts, vectorBatch, uuids, mfetches, mwrites, news_articles,
                 qdrant_points, upserts, callVars, stepVars, sideVars>>

\* the upsert history after a storeArticlesBatch call
Logged(hist, store, ok) ==
  IF store.sent THEN Append(hist, [wait |-> TRUE, points |-> store.points, ok |-> ok])
  ELSE hist

\* one pass of the while loop of migrateWithVectors: the loop test, fetchPosts by
\* skip and limit, the transformation of the batch, the insert of the batch
\* into news_articles, the vector batch and its flush, the catch block, and
\* the new offset
WithVectorsBatch ==
  /\ mfn = "migrateWithVectors"
  /\ mpc = "loop"
  /\ IF ~(currentOffset < totalPosts
          /\ (mopts.limit = 0 \/ result.processed < mopts.limit))
     THEN /\ mpc' = "finish"
          /\ UNCHANGED <<result, currentOffset, vectorBatch, moutcome, mfetches,
                         mwrites, news_articles, qdrant_points, upserts>>
     ELSE \E remainingLimit \in
             {IF mopts.limit # 0 THEN Min(batchSize, mopts.limit - result.processed)
              ELSE batchSize} :
          /\ mfetches' = Append(mfetches, BatchFetch(currentOffset, remainingLimit, NoId))
          /\ \/ \* fetchPosts is rejected
                /\ WithVectorsFail(result)
                /\ UNCHANGED <<currentOffset, vectorBatch, mwrites, news_articles,
                               qdrant_points, upserts>>
             \/ \E batch \in {fetchPosts(collection, remainingLimit, currentOffset,
                                         NoDate, NoDate, NoId)} :
                IF batch = <<>>
                THEN /\ mpc' = "finish"
                     /\ UNCHANGED <<result, currentOffset, vectorBatch, moutcome,
                                    mwrites, news_articles, qdrant_points, upserts>>
                ELSE \E acc \in {WithVectorsLoop(batch, 1, NoBatch(result, uuids), 1)} :
                     \E n \in {Len(acc.data)} :
                     /\ currentOffset' = currentOffset + Len(batch)
                     /\ mpc' = "loop"
                     /\ moutcome' = moutcome
                     /\ IF mopts.dryRun \/ n = 0
                        THEN /\ result' = IF mopts.dryRun
                                          THEN [acc.result EXCEPT !.inserted = @ + n]
                                          ELSE acc.result
                             /\ UNCHANGED <<vectorBatch, mwrites, news_articles,
                                            qdrant_points, upserts>>
                        ELSE \/ \* the insert returns an error, or is rejected
                                /\ result' = ErrorDetail(
                                               [acc.result EXCEPT !.errors = @ + n],
                                               BatchPostId, "insert rejected")
                                /\ mwrites' = Append(mwrites,
                                                BatchWrite("news_articles", n, FALSE, TRUE))
                                /\ UNCHANGED <<vectorBatch, news_articles, qdrant_points,
                                               upserts>>
                             \/ \E pending \in
                                   {IF mopts.enableVectors
                                    THEN vectorBatch
                                           \o VectorArticles(batch, n,
                                                Len(news_articles) + 1, 1, 1)
                                    ELSE vectorBatch} :
                                /\ news_articles' = news_articles \o acc.data
                                /\ IF mopts.enableVectors /\ Len(pending) >= batchSize
                                   THEN \E ok \in BOOLEAN :
                                        \E store \in {storeArticlesBatch(pending,
                                                        qdrant_points, vectorSize, ok)} :
                                          /\ store.threw = ~ok
                                          /\ qdrant_points' = store.stored
                                          /\ upserts' = Logged(upserts, store, ok)
                                          /\ mwrites' = mwrites \o
                                               <<BatchWrite("news_articles", n, TRUE, TRUE),
                                                 BatchWrite("vectors", Len(pending), ok, TRUE)>>
                                          /\ vectorBatch' = IF ok THEN <<>> ELSE pending
                                          /\ result' =
                                               IF ok
                                               THEN [acc.result EXCEPT !.inserted = @ + n]
                                               ELSE ErrorDetail(
                                                      [acc.result EXCEPT
                                                         !.inserted = @ + n,
                                                         !.errors = @ + n],
                                                      BatchPostId, "upsert rejected")
                                   ELSE /\ vectorBatch' = pending
                                        /\ mwrites' = Append(mwrites,
                                             BatchWrite("news_articles", n, TRUE, TRUE))
                                        /\ result' = [acc.result EXCEPT !.inserted = @ + n]
                                        /\ UNCHANGED <<qdrant_points, upserts>>
  /\ UNCHANGED <<mfn, mopts, totalPosts, uuids, qdrant_collection, initLog, callVars,
                 stepVars, sideVars>>

\* return result, or the outer catch when getCollectionStats is rejected
WithVectorsReturn ==
  \/ /\ result' = [result EXCEPT !.success = (result.errors = 0)]
     /\ moutcome' = "returned"
     /\ mpc' = "done"
  \/ /\ mopts.enableVectors
     /\ WithVectorsFail([result EXCEPT !.success = (result.errors = 0)])

\* after the loop: the flush of the remaining vector batch, result.success,
\* the statistics, return result
WithVectorsFinish ==
  /\ mfn = "migrateWithVectors"
  /\ mpc = "finish"
  /\ IF mopts.enableVectors /\ vectorBatch # <<>>
     THEN \E ok \in BOOLEAN :
          \E store \in {storeArticlesBatch(vectorBatch, qdrant_points, vectorSize, ok)} :
            /\ store.threw = ~ok
            /\ qdrant_points' = store.stored
            /\ upserts' = Logged(upserts, store, ok)
            /\ mwrites' = Append(mwrites,
                            BatchWrite("vectors", Len(vectorBatch), ok, FALSE))
            /\ IF ok THEN WithVectorsReturn ELSE WithVectorsFail(result)
     ELSE /\ WithVectorsReturn
          /\ UNCHANGED <<mwrites, qdrant_points, upserts>>
  /\ UNCHANGED <<mfn, mopts, totalPosts, currentOffset, vectorBatch, uuids, mfetches,
                 qdrant_collection, initLog, news_articles, callVars, stepVars,
                 sideVars>>

\* the options the callers are taken to pass (0 for limit is no limit)
Limits == {0, 1, 2}
Offsets == {0, 1}

InitMigrate ==
  /\ VectorIdle
  /\ EtlIdle
  /\ RestIdle
  /\ collection \in Sources
  /\ news_channels = <<[id |-> 1, name |-> DefaultChannelName]>>
  /\ batchSize \in 1..MaxBatch

NextMigrate ==
  \/ \E limit \in Limits, offset \in Offsets, dry \in BOOLEAN :
       CallMigrateToVectorOnly(limit, offset, dry)
  \/ VectorOnlyStart
  \/ VectorOnlyBatch
  \/ VectorOnlyFinish
  \/ \E limit \in Limits, offset \in Offsets, dry \in BOOLEAN,
        enableVectors \in BOOLEAN :
       CallMigrateWithVectors(limit, offset, dry, enableVectors)
  \/ WithVectorsStart
  \/ WithVectorsBatch
  \/ WithVectorsFinish

SpecMigrate == InitMigrate /\ [][NextMigrate]_vars

(***************************************************************************)
(* Properties of the batch migrations.                                      *)
(***************************************************************************)
\* the batch writes a step has sent
NewWrites(before, after) == SubSeq(after, Len(before) + 1, Len(after))

\* C12: whenever a batch write to a target store (the insert into
\* news_articles or the vector upsert) is rejected, the step counts every
\* record of that write as an error on top of the transformation errors of
\* the batch, records one message for it, and the run goes on with its loop.
C12_WholeBatchFailure ==
  [][\A k \in 1..Len(NewWrites(mwrites, mwrites')) :
       LET write == NewWrites(mwrites, mwrites')[k]
           messages == Len(result'.error_details) - Len(result.error_details)
       IN ~write.ok =>
            /\ messages >= 1
            /\ result'.errors = result.errors + (messages - 1) + write.n
            /\ result'.error_details[Len(result'.error_details)].post_id = BatchPostId
            /\ mpc' = "loop"
            /\ moutcome' = "pending"
    ]_vars

(***************************************************************************)
(* VectorService.initializeCollection called repeatedly on one index.       *)
(***************************************************************************)
\* calls of initializeCollection a run of the model makes
MaxInitCalls == 3

\* one call of initializeCollection; failAt is the request the index rejects
InitializeCollection(failAt) ==
  /\ Len(initLog) < MaxInitCalls
  /\ failAt \in 0..LastInitRequest(qdrant_collection)
  /\ \E init \in {initializeCollection(qdrant_collection, vectorSize, failAt)} :
       /\ qdrant_collection' = init.coll
       /\ initLog' = Append(initLog, [existed |-> qdrant_collection.exists,
                                      threw |-> init.threw,
                                      creates |-> init.creates])
  /\ UNCHANGED <<collection, news_channels, news_articles, batchSize, defaultChannelId,
                 client, pc, call, options, channelId, migrationJob, lastId,
                 totalProcessed, totalFailed, allErrors, posts, idx, results,
                 outcome, thrown, requests, fetches, handed, outcomes, statuses,
                 runs, prev, vectorVars, runVars, sideVars>>

InitCollection ==
  /\ EtlIdle
  /\ RestIdle
  /\ collection = <<>>
  /\ news_channels = <<>>
  /\ batchSize = 1
  /\ openai \in BOOLEAN
  /\ vectorSize \in {ConfiguredSize(given) : given \in {0, SmallVectorSize}}
  /\ qdrant_points = {}
  /\ vArticles = <<>>
  /\ vpc = "idle"
  /\ vi = 0
  /\ points = <<>>
  /\ voutcome = "pending"
  /\ embedLog = <<>>
  /\ upserts = <<>>

NextCollection == \E failAt \in 0..(2 + Len(IndexFields)) : InitializeCollection(failAt)

SpecCollection == InitCollection /\ [][NextCollection]_vars

\* the indexes the specification lists for filtered search
ListedIndexes == {"channel_id", "categories", "topics", "published_at", "event_category"}

\* C13: after any sequence of calls of initializeCollection of which the last
\* returned successfully, the collection exists with cosine distance, the
\* configured size and the listed payload indexes; and a call made when the
\* collection was already present sent no create request.
C13_InitializeIdempotent ==
  /\ (initLog /= <<>> /\ ~initLog[Len(initLog)].threw) =>
       /\ qdrant_collection.exists
       /\ qdrant_collection.distance = "Cosine"
       /\ qdrant_collection.size = vectorSize
       /\ ListedIndexes \subseteq qdrant_collection.indexes
  /\ \A k \in 1..Len(initLog) : initLog[k].existed => initLog[k].creates = 0

(***************************************************************************)
(* ETLService.ensureDefaultChannel called repeatedly on one instance.       *)
(***************************************************************************)
\* calls of ensureDefaultChannel a run of the model makes on the instance
MaxEnsureCalls == 3

ChannelNames == {DefaultChannelName, ResumedChannelName}

\* the name of the channel with this id
NameOfChannel(channels, id) ==
  channels[CHOOSE k \in 1..Len(channels) : channels[k].id = id].name

\* ensureDefaultChannel(channelName) as one call: getAllOk and createOk tell
\* whether newsChannelsApi.getAll and newsChannelsApi.create are accepted
ensureDefaultChannel(channels, cached, channelName, getAllOk, createOk) ==
  IF cached # 0
  THEN [channels |-> channels, cached |-> cached, id |-> cached,
        threw |-> FALSE, created |-> FALSE]
  ELSE IF ~getAllOk
  THEN [channels |-> channels, cached |-> cached, id |-> 0,
        threw |-> TRUE, created |-> FALSE]
  ELSE IF FindChannel(channels, channelName) # 0
  THEN [channels |-> channels, cached |-> FindChannel(channels, channelName),
        id |-> FindChannel(channels, channelName),
        threw |-> FALSE, created |-> FALSE]
  ELSE IF ~createOk
  THEN [channels |-> channels, cached |-> cached, id |-> 0,
        threw |-> TRUE, created |-> FALSE]
  ELSE [channels |-> Append(channels, [id |-> Len(channels) + 1,
                                       name |-> channelName]),
        cached |-> Len(channels) + 1, id |-> Len(channels) + 1,
        threw |-> FALSE, created |-> TRUE]

CallEnsureDefaultChannel(channelName, getAllOk, createOk) ==
  /\ Len(ensured) < MaxEnsureCalls
  /\ \E call_ \in {ensureDefaultChannel(news_channels, defaultChannelId,
                                        channelName, getAllOk, createOk)} :
       /\ news_channels' = call_.channels
       /\ defaultChannelId' = call_.cached
       /\ ensured' = Append(ensured,
                            [name |-> channelName, id |-> call_.id,
                             threw |-> call_.threw, created |-> call_.created,
                             existed |-> FindChannel(news_channels, channelName) # 0])
  /\ UNCHANGED <<collection, news_articles, batchSize, client, pc, call, options,
                 channelId, migrationJob, lastId, totalProcessed, totalFailed,
                 allErrors, posts, idx, results, outcome, thrown, requests, fetches,
                 handed, outcomes, statuses, runs, prev, vectorVars, runVars,
                 qdrant_collection, initLog, jobs, responses, routeVars, cleaned,
                 applied>>

\* the channels the store may hold before the instance is used
StoredChannels ==
  {<<>>,
   <<[id |-> 1, name |-> DefaultChannelName]>>,
   <<[id |-> 1, name |-> ResumedChannelName]>>,
   <<[id |-> 1, name |-> DefaultChannelName], [id |-> 2, name |-> ResumedChannelName]>>}

InitChannel ==
  /\ VectorIdle
  /\ EtlIdle
  /\ RestIdle
  /\ collection = <<>>
  /\ batchSize \in 1..MaxBatch
  /\ news_channels \in StoredChannels

NextChannel ==
  \E channelName \in ChannelNames, getAllOk \in BOOLEAN, createOk \in BOOLEAN :
    CallEnsureDefaultChannel(channelName, getAllOk, createOk)

SpecChannel == InitChannel /\ [][NextChannel]_vars

\* C14: every call of ensureDefaultChannel(name) that returns gives the id of
\* the channel whose name is the requested name, and creates a channel only
\* when none of that name existed.
C14_ChannelLookupByName ==
  \A k \in 1..Len(ensured) :
    /\ ~ensured[k].threw => NameOfChannel(news_channels, ensured[k].id) = ensured[k].name
    /\ ensured[k].created => ~ensured[k].existed

(***************************************************************************)
(* Two jobs ensuring their channel on one relational store.                 *)
(***************************************************************************)
\* jobs running at once
MaxJobs == 2

\* "etl": ETLService.ensureDefaultChannel on an instance of its own;
\* "edge": the channel block of performMigration in the edge function
JobKinds == {"etl", "edge"}

NewChannelJob(kind, name, channels) ==
  [kind |-> kind, name |-> name, absent |-> FindChannel(channels, name) = 0,
   pc |-> "select", id |-> 0, outcome |-> "pending", error |-> ""]

\* news_channels.name is NOT NULL UNIQUE: the store rejects a second row of a name
UniqueViolation(channels, name) == FindChannel(channels, name) # 0

\* the lookup of job j: getAll() and find, or select('id').eq('name', channelName)
JobSelect(j) ==
  /\ j \in 1..Len(jobs)
  /\ jobs[j].pc = "select"
  /\ \/ jobs' = [jobs EXCEPT ![j] =
                   IF FindChannel(news_channels, jobs[j].name) # 0
                   THEN [@ EXCEPT !.pc = "done", !.outcome = "returned",
                                  !.id = FindChannel(news_channels, jobs[j].name)]
                   ELSE [@ EXCEPT !.pc = "insert"]]
     \* the request fails: getAll throws; the edge function reads only `data`
     \* and goes on to insert
     \/ jobs' = [jobs EXCEPT ![j] =
                   IF jobs[j].kind = "etl"
                   THEN [@ EXCEPT !.pc = "done", !.outcome = "thrown",
                                  !.error = "request failed"]
                   ELSE [@ EXCEPT !.pc = "insert"]]
  /\ UNCHANGED <<collection, news_channels, news_articles, batchSize,
                 defaultChannelId, client, pc, call, options, channelId,
                 migrationJob, lastId, totalProcessed, totalFailed, allErrors,
                 posts, idx, results, outcome, thrown, requests, fetches, handed,
                 outcomes, statuses, runs, prev, vectorVars, runVars,
                 qdrant_collection, initLog, ensured, responses, routeVars, cleaned,
                 applied>>

\* the insert of job j: newsChannelsApi.create, or insert().select('id').single()
JobInsert(j) ==
  /\ j \in 1..Len(jobs)
  /\ jobs[j].pc = "insert"
  /\ \/ /\ UniqueViolation(news_channels, jobs[j].name)
        /\ jobs' = [jobs EXCEPT ![j] = [@ EXCEPT !.pc = "done", !.outcome = "thrown",
                                                 !.error = "unique violation"]]
        /\ UNCHANGED news_channels
     \/ /\ ~UniqueViolation(news_channels, jobs[j].name)
        /\ news_channels' = Append(news_channels, [id |-> Len(news_channels) + 1,
                                                   name |-> jobs[j].name])
        /\ jobs' = [jobs EXCEPT ![j] = [@ EXCEPT !.pc = "done", !.outcome = "returned",
                                                 !.id = Len(news_channels) + 1]]
     \/ /\ jobs' = [jobs EXCEPT ![j] = [@ EXCEPT !.pc = "done", !.outcome = "thrown",
                                                 !.error = "request failed"]]
        /\ UNCHANGED news_channels
  /\ UNCHANGED <<collection, news_articles, batchSize, defaultChannelId, client, pc,
                 call, options, channelId, migrationJob, lastId, totalProcessed,
                 totalFailed, allErrors, posts, idx, results, outcome, thrown,
                 requests, fetches, handed, outcomes, statuses, runs, prev,
                 vectorVars, runVars, qdrant_collection, initLog, ensured,
                 responses, routeVars, cleaned, applied>>

RECURSIVE JobSeqs(_, _)
JobSeqs(n, channels) ==
  IF n = 0 THEN {<<>>}
  ELSE {Append(js, NewChannelJob(kind, name, channels)) :
          js \in JobSeqs(n - 1, channels), kind \in JobKinds, name \in ChannelNames}

InitJobs ==
  /\ VectorIdle
  /\ EtlIdle
  /\ RunIdle
  /\ CollectionIdle
  /\ ensured = <<>>
  /\ responses = <<>>
  /\ RoutesIdle
  /\ cleaned = NoCleaned
  /\ applied = NoApplied
  /\ collection = <<>>
  /\ batchSize = 1
  /\ news_channels \in StoredChannels
  /\ jobs \in JobSeqs(MaxJobs, news_channels)

NextJobs ==
  \/ \E j \in 1..MaxJobs : JobSelect(j)
  \/ \E j \in 1..MaxJobs : JobInsert(j)

SpecJobs == InitJobs /\ [][NextJobs]_vars

\* rows of news_channels with this name
RowsNamed(channels, name) == {k \in 1..Len(channels) : channels[k].name = name}

\* C15: when two jobs ensure a channel of the same name that did not exist,
\* and no request fails for a reason of its own, then under every
\* interleaving both calls return, with the same id, and exactly one row of
\* that name exists.
C15_ChannelCreationSafe ==
  \A i, j \in 1..Len(jobs) :
    ( /\ i # j
      /\ jobs[i].name = jobs[j].name
      /\ jobs[i].absent
      /\ jobs[i].pc = "done" /\ jobs[j].pc = "done"
      /\ jobs[i].error # "request failed" /\ jobs[j].error # "request failed" )
    => /\ jobs[i].outcome = "returned" /\ jobs[j].outcome = "returned"
       /\ jobs[i].id = jobs[j].id
       /\ Cardinality(RowsNamed(news_channels, jobs[i].name)) = 1

(***************************************************************************)
(* The job-status route, polled while migrateAllPosts runs.                 *)
(***************************************************************************)
\* status requests a run of the model makes for the job
MaxPolls == 2

\* a faulty variant of StatusResponse: the race is always won by the default
StatusResponse_DefaultWins(position, job, result_, error) ==
  [fields |-> {"jobId", "status", "message"}, status |-> "running",
   processed_records |-> 0, failed_records |-> 0, error_message |-> ""]

\* the body the route answers with for a known job: Promise.race gives the
\* settled value of the migration promise, else { status: 'running' }
StatusResponse(position, job, result_, error) ==
  IF position # "done"
  THEN [fields |-> {"jobId", "status", "message"}, status |-> "running",
        processed_records |-> 0, failed_records |-> 0, error_message |-> ""]
  ELSE IF result_ = "returned"
  THEN IF job.status = "running"
       THEN [fields |-> {"jobId", "status", "message"}, status |-> "running",
             processed_records |-> 0, failed_records |-> 0, error_message |-> ""]
       ELSE [fields |-> {"jobId", "status", "total_records", "processed_records",
                         "failed_records", "started_at", "completed_at",
                         "error_message"},
             status |-> job.status,
             processed_records |-> job.processed_records,
             failed_records |-> job.failed_records,
             error_message |-> job.error_message]
  ELSE [fields |-> {"jobId", "status", "error_message"}, status |-> "failed",
        processed_records |-> 0, failed_records |-> 0,
        error_message |-> IF error.isError THEN error.message ELSE "Unknown error"]

\* GET /api/migration/status/[jobId] for the job the start route stored
GetStatus ==
  /\ pc # "idle"
  /\ Len(responses) < MaxPolls
  /\ responses' = Append(responses, StatusResponse(pc, migrationJob, outcome, thrown))
  /\ UNCHANGED <<callVars, news_articles, vectorVars, runVars, qdrant_collection,
                 initLog, ensured, jobs, routeVars, cleaned, applied>>

NextStatus == Next \/ GetStatus

SpecStatus == Init /\ [][NextStatus]_vars

\* the counts the specification says a job snapshot exposes
SnapshotCounts == {"processed_records", "failed_records", "skipped_records"}

\* C16: every status response for a known job, running, completed or failed,
\* exposes the processed, failed and skipped counts, and a failed one carries
\* a message.
C16_SnapshotContents ==
  \A k \in 1..Len(responses) :
    /\ SnapshotCounts \subseteq responses[k].fields
    /\ responses[k].status = "failed" => responses[k].error_message # ""

\* C17: every batch fetch of a batch migration positions its read by the
\* identifier alone: it skips nothing, and every fetch after the first
\* carries the last identifier seen as its cursor.
C17_CursorPagination ==
  \A k \in 1..Len(mfetches) :
    /\ mfetches[k].skip = 0
    /\ k > 1 => mfetches[k].lastId # NoId

(***************************************************************************)
(* One ETLService running any one of its three migrations.                  *)
(***************************************************************************)
InitOrchestrators ==
  /\ Init
  /\ Len(collection) <= MaxRerunPosts

\* a migration is called only on an instance that is running none
NextOrchestrators ==
  \/ \E dry \in BOOLEAN, from \in {NoDate, 2} :
       mpc = "idle" /\ CallMigrateAllPosts(dry, from)
  \/ \E c \in RecordedCursors, ch \in {1} :
       mpc = "idle" /\ CallResumeMigration(c, ch)
  \/ Connect
  \/ EnsureDefaultChannel
  \/ CreateChannel
  \/ CountPosts
  \/ FetchBatch
  \/ ProcessPost
  \/ EndBatch
  \/ Disconnect
  \/ \E limit \in Limits, dry \in BOOLEAN :
       pc = "idle" /\ CallMigrateToVectorOnly(limit, 0, dry)
  \/ VectorOnlyStart
  \/ VectorOnlyBatch
  \/ VectorOnlyFinish
  \/ \E limit \in Limits, dry \in BOOLEAN, enableVectors \in BOOLEAN :
       pc = "idle" /\ CallMigrateWithVectors(limit, 0, dry, enableVectors)
  \/ WithVectorsStart
  \/ WithVectorsBatch
  \/ WithVectorsFinish

SpecOrchestrators == InitOrchestrators /\ [][NextOrchestrators]_vars

\* the records of a fetched batch that the migration's transformation skips
SkippedIn(batch, fn) ==
  {k \in 1..Len(batch) :
     IF fn = "migrateToVectorOnly" THEN transformPostToVector(batch[k], 0).skipped
     ELSE transformPost(batch[k], 1).skipped}

\* C18: in migrateAllPosts, migrateToVectorOnly and migrateWithVectors, a
\* record that fails validation adds one to the skipped count and nothing
\* else: the failed or errors count does not count it, no entry of the error
\* list names it, and the loop goes on to the records after it.
C18_SkipIsNotFail ==
  [][/\ (pc = "processBatch" /\ idx' = idx + 1
           /\ transformPost(posts[idx], channelId).skipped)
        => /\ results' = [results EXCEPT !.skipped = @ + 1]
           /\ pc' = "processBatch"
           /\ outcome' = outcome
     /\ result'.processed > result.processed
        => \E f \in {mfetches'[Len(mfetches')]} :
           \E batch \in {fetchPosts(collection, f.limit, f.skip, NoDate, NoDate, NoId)} :
           \E sk \in {SkippedIn(batch, mfn)} :
              /\ result'.skipped = result.skipped + Cardinality(sk)
              /\ result'.errors - result.errors <= Len(batch) - Cardinality(sk)
              /\ \A d \in (Len(result.error_details) + 1)..Len(result'.error_details) :
                   \A k \in sk :
                     result'.error_details[d].post_id # IdToString(batch[k]._id)
              /\ result'.processed = result.processed + Len(batch)
              /\ mpc' = "loop"
    ]_vars

\* a batch migration skipped a record and then wrote the record after it
C18_Witness ==
  /\ mfn \in {"migrateToVectorOnly", "migrateWithVectors"}
  /\ ~mopts.dryRun
  /\ result.processed = 2
  /\ result.skipped = 1
  /\ result.inserted = 1
  /\ result.errors = 0
  /\ result.error_details = <<>>
  /\ \E k \in SkippedIn(collection, mfn) : k = 1

\* the records a batch migration called with this offset has to process
Remaining(offset) ==
  IF getPostCount(collection, NoDate, NoDate) > offset
  THEN getPostCount(collection, NoDate, NoDate) - offset ELSE 0

\* C19: a run that is not a dry run ends completed only when the source is
\* exhausted or the caller's limit is reached: a completed migrateAllPosts
\* (it takes no limit) has fetched every matching record, and a batch
\* migration that returns success has processed its limit or every record
\* from its offset on.
C19_CompletionCondition ==
  /\ (/\ pc = "done"
      /\ ~options.dryRun
      /\ migrationJob.status = "completed")
     => Len(handed) = Len(Matching)
  /\ (/\ mpc = "done"
      /\ moutcome = "returned"
      /\ result.success)
     => \/ mopts.limit # 0 /\ result.processed >= mopts.limit
        \/ result.processed = Remaining(mopts.offset)

(***************************************************************************)
(* cleanHtmlContent applied to its own result.                              *)
(***************************************************************************)
\* pieces an input string is made of
MaxTokens == 4

\* the pieces: the characters the patterns of cleanHtmlContent look at, a
\* letter, and the opening and closing tags of the blocks it removes
CleanTokens ==
  {<<"<">>, <<">">>, <<" ">>, <<"\n">>, <<"a">>,
   ScriptOpen \o <<">">>, ScriptClose, StyleOpen \o <<">">>, StyleClose}

RECURSIVE CleanInputs(_)
CleanInputs(n) ==
  IF n = 0 THEN {<<>>}
  ELSE {<<>>} \cup {x \o t : x \in CleanInputs(n - 1), t \in CleanTokens}

\* cleanHtmlContent(html), and cleanHtmlContent of what it returned
CleanTwice ==
  /\ ~cleaned.done
  /\ \E once \in {cleanHtmlContent(cleaned.input)} :
       cleaned' = [cleaned EXCEPT !.once = once,
                                  !.twice = cleanHtmlContent(once),
                                  !.done = TRUE]
  /\ UNCHANGED <<callVars, news_articles, vectorVars, runVars, qdrant_collection,
                 initLog, ensured, jobs, responses, routeVars, applied>>

InitClean ==
  /\ VectorIdle
  /\ EtlIdle
  /\ RunIdle
  /\ CollectionIdle
  /\ ensured = <<>>
  /\ jobs = <<>>
  /\ responses = <<>>
  /\ RoutesIdle
  /\ applied = NoApplied
  /\ collection = <<>>
  /\ news_channels = <<>>
  /\ batchSize = 1
  /\ cleaned \in {[NoCleaned EXCEPT !.input = x] : x \in CleanInputs(MaxTokens)}

NextClean == CleanTwice

SpecClean == InitClean /\ [][NextClean]_vars

\* C20: cleaning is idempotent: for every input,
\* cleanHtmlContent(cleanHtmlContent(x)) = cleanHtmlContent(x).
C20_CleanIdempotent ==
  cleaned.done => cleaned.twice = cleaned.once

\* an input with two tags and a letter, which cleaning changed and did not empty
C20_Witness ==
  /\ cleaned.done
  /\ Cardinality({k \in 1..Len(cleaned.input) : cleaned.input[k] = "<"}) >= 2
  /\ Cardinality({k \in 1..Len(cleaned.input) : cleaned.input[k] = ">"}) >= 2
  /\ cleaned.once # <<>>
  /\ cleaned.once # cleaned.input
  /\ cleaned.twice = cleaned.once

(***************************************************************************)
(* The pure functions of the program, applied to drawn arguments.           *)
(***************************************************************************)
\* every variable but applied
programVars == <<callVars, news_articles, vectorVars, runVars, qdrant_collection,
                 initLog, ensured, jobs, responses, routeVars, cleaned>>

\* no service is in use
ProgramIdle ==
  /\ VectorIdle
  /\ EtlIdle
  /\ RunIdle
  /\ CollectionIdle
  /\ ensured = <<>>
  /\ jobs = <<>>
  /\ responses = <<>>
  /\ RoutesIdle
  /\ cleaned = NoCleaned
  /\ collection = <<>>
  /\ news_channels = <<>>
  /\ batchSize = 1

\* a call of fn that has not run yet
Pending(fn, args) == [fn |-> fn, args |-> args, returned |-> <<>>]

\* cleaned bodies of the drawn records are this close to the summary length
SummaryMargin == 3

\* a record whose cleaned body has n characters
PostWithBody(n, summary, seo) ==
  [PostOfKind("valid", 1) EXCEPT !.text = Str(<<"<", "p", ">">> \o Repeat("a", n)),
                                 !.summary = summary,
                                 !.seo_description = seo]

SummaryPosts ==
  {PostWithBody(n, summary, seo) :
     n \in {MinContentLength}
             \cup ((SummaryLength - SummaryMargin)..(SummaryLength + SummaryMargin)),
     summary \in {Undefined, Str(<<>>), Str(<<"s", "u", "m">>)},
     seo \in {Undefined, Str(<<>>), Str(<<"s", "e", "o">>)}}

\* transformPost(mongoPost, channelId) on the drawn record
ApplyTransformPost ==
  /\ applied.fn = "transformPost"
  /\ applied.returned = <<>>
  /\ applied' = [applied EXCEPT !.returned = <<transformPost(applied.args[1], 1)>>]
  /\ UNCHANGED programVars

InitSummary ==
  /\ ProgramIdle
  /\ applied \in {Pending("transformPost", <<post>>) : post \in SummaryPosts}

NextSummary == ApplyTransformPost

SpecSummary == InitSummary /\ [][NextSummary]_vars

\* C21: the summary of a transformed record is the given summary, else the
\* given short description, unchanged; with neither it is the cleaned body
\* when that has at most 200 characters, and its first 200 characters
\* followed by '...' when it has more.
C21_SummaryDerivation ==
  (applied.fn = "transformPost" /\ applied.returned # <<>>) =>
    LET post == applied.args[1]
        data == applied.returned[1].data
    IN /\ applied.returned[1].success
       /\ ~Falsy(post.summary) => data.summary = post.summary.s
       /\ (Falsy(post.summary) /\ ~Falsy(post.seo_description))
            => data.summary = post.seo_description.s
       /\ (Falsy(post.summary) /\ Falsy(post.seo_description))
            => /\ Len(data.content) <= 200 => data.summary = data.content
               /\ Len(data.content) > 200
                    => data.summary = SubSeq(data.content, 1, 200) \o <<".", ".", ".">>

\* a record without summary or short description whose cleaned body has
\* exactly 200 characters, and one whose body has 201
C21_Witness ==
  /\ applied.fn = "transformPost"
  /\ applied.returned # <<>>
  /\ Falsy(applied.args[1].summary)
  /\ Falsy(applied.args[1].seo_description)
  /\ Len(applied.returned[1].data.content) = 200
  /\ applied.returned[1].data.summary = applied.returned[1].data.content

(***************************************************************************)
(* ETLService.categorizeEvent.                                              *)
(***************************************************************************)
\* UTF-16 code units outside ASCII, by their code
CCedilla == "u00e7"
OUmlaut == "u00f6"
UUmlaut == "u00fc"
GBreve == "u011f"
CapitalDottedI == "u0130"
DotlessI == "u0131"
SCedilla == "u015f"
CombiningDot == "u0307"

UpperCase == <<"A", "B", "C", "D", "E", "F", "G", "H", "I", "J", "K", "L", "M",
               "N", "O", "P", "Q", "R", "S", "T", "U", "V", "W", "X", "Y", "Z">>
LowerCase == <<"a", "b", "c", "d", "e", "f", "g", "h", "i", "j", "k", "l", "m",
               "n", "o", "p", "q", "r", "s", "t", "u", "v", "w", "x", "y", "z">>

\* \w of a pattern without the u flag: [A-Za-z0-9_]
IsWordChar(c) ==
  \/ \E k \in 1..26 : c = UpperCase[k] \/ c = LowerCase[k]
  \/ c \in {"0", "1", "2", "3", "4", "5", "6", "7", "8", "9", "_"}

\* String.prototype.toLowerCase
RECURSIVE ToLowerCase(_)
ToLowerCase(s) ==
  IF s = <<>> THEN <<>>
  ELSE (IF \E k \in 1..26 : s[1] = UpperCase[k]
        THEN <<LowerCase[CHOOSE k \in 1..26 : s[1] = UpperCase[k]]>>
        ELSE IF s[1] = CapitalDottedI THEN <<"i", CombiningDot>>
        ELSE <<s[1]>>) \o ToLowerCase(Tail(s))

\* \b at the gap before position p of s
WordBoundary(s, p) ==
  (p > 1 /\ IsWordChar(s[p - 1])) # (p <= Len(s) /\ IsWordChar(s[p]))

\* s has the literal lit at position p, character for character
LiteralAt(s, p, lit) ==
  /\ p + Len(lit) - 1 <= Len(s)
  /\ \A k \in 1..Len(lit) : s[p + k - 1] = lit[k]

\* text.match(/\b(k1|k2|...)\b/) is not null
MatchesRule(text, keywords) ==
  \E lit \in keywords : \E p \in 1..Len(text) :
    /\ LiteralAt(text, p, lit)
    /\ WordBoundary(text, p)
    /\ WordBoundary(text, p + Len(lit))

PoliticsKeywords ==
  {<<"s", "e", CCedilla, "i", "m">>,
   <<"p", "a", "r", "t", "i">>,
   <<"m", "i", "l", "l", "e", "t", "v", "e", "k", "i", "l", "i">>,
   <<"b", "a", SCedilla, "k", "a", "n">>,
   <<"h", UUmlaut, "k", UUmlaut, "m", "e", "t">>,
   <<"m", "e", "c", "l", "i", "s">>,
   <<"p", "o", "l", "i", "t", "i", "k", "a">>}

EconomyKeywords ==
  {<<"e", "k", "o", "n", "o", "m", "i">>,
   <<"d", "o", "l", "a", "r">>,
   <<"e", "u", "r", "o">>,
   <<"b", "o", "r", "s", "a">>,
   <<"e", "n", "f", "l", "a", "s", "y", "o", "n">>,
   <<"f", "a", "i", "z">>,
   <<"t", "c", "m", "b">>,
   <<"m", "e", "r", "k", "e", "z", " ", "b", "a", "n", "k", "a", "s", DotlessI>>}

SportsKeywords ==
  {<<"f", "u", "t", "b", "o", "l">>,
   <<"b", "a", "s", "k", "e", "t", "b", "o", "l">>,
   <<"s", "p", "o", "r">>,
   <<"m", "a", CCedilla>>,
   <<"t", "a", "k", DotlessI, "m">>,
   <<"g", "a", "l", "a", "t", "a", "s", "a", "r", "a", "y">>,
   <<"f", "e", "n", "e", "r", "b", "a", "h", CCedilla, "e">>,
   <<"b", "e", SCedilla, "i", "k", "t", "a", SCedilla>>}

TechnologyKeywords ==
  {<<"t", "e", "k", "n", "o", "l", "o", "j", "i">>,
   <<"y", "a", "p", "a", "y", " ", "z", "e", "k", "a">>,
   <<"i", "n", "t", "e", "r", "n", "e", "t">>,
   <<"b", "i", "l", "g", "i", "s", "a", "y", "a", "r">>,
   <<"t", "e", "l", "e", "f", "o", "n">>,
   <<"u", "y", "g", "u", "l", "a", "m", "a">>}

HealthKeywords ==
  {<<"s", "a", GBreve, "l", DotlessI, "k">>,
   <<"h", "a", "s", "t", "a", "n", "e">>,
   <<"d", "o", "k", "t", "o", "r">>,
   <<"t", "e", "d", "a", "v", "i">>,
   <<"a", SCedilla, DotlessI>>,
   <<"c", "o", "v", "i", "d">>,
   <<"c", "o", "r", "o", "n", "a">>}


\* a faulty variant of categorizeEvent: the economy rule is tried before the politics rule
categorizeEvent_EconomyFirst(title, content) ==
  LET text == ToLowerCase(title \o <<" ">> \o content)
  IN IF MatchesRule(text, EconomyKeywords) THEN "economy"
     ELSE IF MatchesRule(text, PoliticsKeywords) THEN "politics"
     ELSE IF MatchesRule(text, SportsKeywords) THEN "sports"
     ELSE IF MatchesRule(text, TechnologyKeywords) THEN "technology"
     ELSE IF MatchesRule(text, HealthKeywords) THEN "health"
     ELSE "general"

categorizeEvent(title, content) ==
  LET text == ToLowerCase(title \o <<" ">> \o content)
  IN IF MatchesRule(text, PoliticsKeywords) THEN "politics"
     ELSE IF MatchesRule(text, EconomyKeywords) THEN "economy"
     ELSE IF MatchesRule(text, SportsKeywords) THEN "sports"
     ELSE IF MatchesRule(text, TechnologyKeywords) THEN "technology"
     ELSE IF MatchesRule(text, HealthKeywords) THEN "health"
     ELSE "general"


\* the words the drawn titles and contents are made of: keywords of every
\* rule, a word that is no keyword, a keyword in capitals and a keyword
\* inside a longer word
DrawnWords ==
  {<<"s", "e", CCedilla, "i", "m">>,
   <<"p", "a", "r", "t", "i">>,
   <<"d", "o", "l", "a", "r">>,
   <<"f", "a", "i", "z">>,
   <<"m", "e", "r", "k", "e", "z", " ", "b", "a", "n", "k", "a", "s", DotlessI>>,
   <<"m", "a", CCedilla>>,
   <<"s", "p", "o", "r">>,
   <<"y", "a", "p", "a", "y", " ", "z", "e", "k", "a">>,
   <<"a", SCedilla, DotlessI>>,
   <<"c", "o", "v", "i", "d">>,
   <<"e", "v", "e", "t">>,
   <<"D", "O", "L", "A", "R">>,
   <<"S", "E", "C", CapitalDottedI, "M">>,
   <<"d", "o", "l", "a", "r", "l", "a", "r">>}

DrawnTexts ==
  {<<>>} \cup DrawnWords
    \cup {w \o sep \o v : w \in DrawnWords, v \in DrawnWords,
                           sep \in {<<" ">>, <<",", " ">>}}

\* categorizeEvent(title, content) on the drawn title and content
ApplyCategorizeEvent ==
  /\ applied.fn = "categorizeEvent"
  /\ applied.returned = <<>>
  /\ applied' = [applied EXCEPT
                   !.returned = <<categorizeEvent(applied.args[1], applied.args[2])>>]
  /\ UNCHANGED programVars

InitCategorize ==
  /\ ProgramIdle
  /\ applied \in {Pending("categorizeEvent", <<title, content>>) :
                    title \in {<<>>} \cup DrawnWords, content \in DrawnTexts}

NextCategorize == ApplyCategorizeEvent

SpecCategorize == InitCategorize /\ [][NextCategorize]_vars

\* the rules of categorizeEvent in the order the code tries them
CategoryRules ==
  <<[category |-> "politics", keywords |-> PoliticsKeywords],
    [category |-> "economy", keywords |-> EconomyKeywords],
    [category |-> "sports", keywords |-> SportsKeywords],
    [category |-> "technology", keywords |-> TechnologyKeywords],
    [category |-> "health", keywords |-> HealthKeywords]>>

\* the text categorizeEvent matches its rules against
CategorizedText == ToLowerCase(applied.args[1] \o <<" ">> \o applied.args[2])

\* the rules whose pattern matches the text
MatchingRules ==
  {k \in 1..Len(CategoryRules) : MatchesRule(CategorizedText, CategoryRules[k].keywords)}

\* C22: categorizeEvent returns the category of the first rule, in the order
\* politics, economy, sports, technology, health, whose pattern matches the
\* lower-cased title and content, and 'general' when no rule matches.
C22_FirstMatchWins ==
  (applied.fn = "categorizeEvent" /\ applied.returned # <<>>) =>
    \E matching \in {MatchingRules} :
      applied.returned[1] =
        IF matching = {} THEN "general"
        ELSE CategoryRules[CHOOSE k \in matching : \A j \in matching : k <= j].category

\* a text matching the politics and the economy rule has been categorized
C22_Witness ==
  /\ applied.fn = "categorizeEvent"
  /\ applied.returned = <<"politics">>
  /\ {1, 2} \subseteq MatchingRules

\* a letter of the Turkish alphabet
IsLetter(c) ==
  IsWordChar(c) \/ c \in {CCedilla, OUmlaut, UUmlaut, GBreve, DotlessI, SCedilla}

\* text has lit as a word: at its start or after a non-letter, and at its end
\* or before a non-letter
ContainsWord(text, lit) ==
  \E p \in 1..Len(text) :
    /\ LiteralAt(text, p, lit)
    /\ (p = 1 \/ ~IsLetter(text[p - 1]))
    /\ (p + Len(lit) > Len(text) \/ ~IsLetter(text[p + Len(lit)]))

\* C23: every text that contains an economy keyword as a word and no politics
\* keyword is categorized 'economy', wherever the keyword stands.
C23_EconomyClassification ==
  (applied.fn = "categorizeEvent" /\ applied.returned # <<>>) =>
    \E text \in {CategorizedText} :
      ((\E lit \in EconomyKeywords : ContainsWord(text, lit))
       /\ ~(\E lit \in PoliticsKeywords : ContainsWord(text, lit)))
        => applied.returned[1] = "economy"

(***************************************************************************)
(* VectorService.generateSimpleEmbedding and simpleHash, position by       *)
(* position.  A 32-bit integer is kept as two 16-bit halves; an element of *)
(* the embedding is kept as "0", "+" (a positive number) or "NaN".         *)
(***************************************************************************)
Digits == <<"0", "1", "2", "3", "4", "5", "6", "7", "8", "9">>

\* str.charCodeAt(i) of a word character
CharCode(c) ==
  IF \E k \in 1..26 : c = LowerCase[k] THEN 96 + (CHOOSE k \in 1..26 : c = LowerCase[k])
  ELSE IF \E k \in 1..26 : c = UpperCase[k] THEN 64 + (CHOOSE k \in 1..26 : c = UpperCase[k])
  ELSE IF \E k \in 1..10 : c = Digits[k] THEN 47 + (CHOOSE k \in 1..10 : c = Digits[k])
  ELSE 95

\* the loop of simpleHash: hash = ((hash << 5) - hash) + char; hash = hash & hash,
\* the 32 bits of hash after the first n characters
RECURSIVE Hash32(_, _)
Hash32(str, n) ==
  IF n = 0 THEN [hi |-> 0, lo |-> 0]
  ELSE LET h == Hash32(str, n - 1)
           low == 31 * h.lo + CharCode(str[n])
       IN [hi |-> (31 * h.hi + low \div 65536) % 65536, lo |-> low % 65536]

\* the magnitude of the 32-bit two's complement integer h
Magnitude(h) ==
  IF h.hi < 32768 THEN h
  ELSE IF h.lo = 0 THEN [hi |-> 65536 - h.hi, lo |-> 0]
  ELSE [hi |-> 65535 - h.hi, lo |-> 65536 - h.lo]

\* a faulty variant of simpleHash: the hash is returned with its sign
simpleHash_Signed(str) ==
  LET h == Hash32(str, Len(str))
  IN [neg |-> h.hi >= 32768, hi |-> Magnitude(h).hi, lo |-> Magnitude(h).lo]

\* simpleHash: return Math.abs(hash)
simpleHash(str) ==
  LET h == Hash32(str, Len(str))
  IN [neg |-> FALSE, hi |-> Magnitude(h).hi, lo |-> Magnitude(h).lo]

\* (hash + i * 307) % this.config.vectorSize, the sign of the remainder being
\* the sign of the dividend
Position(hash, i, size) ==
  LET m == ((hash.hi % size) * (65536 % size) + hash.lo) % size
  IN IF ~hash.neg THEN (m + i * 307) % size
     ELSE IF hash.hi = 0 /\ hash.lo <= i * 307 THEN (i * 307 - hash.lo) % size
     ELSE 0 - ((m + size - ((i * 307) % size)) % size)

\* text.toLowerCase().match(/\w+/g) || [], as the set of the distinct words
WordsOf(text) ==
  LET t == ToLowerCase(text)
  IN {SubSeq(t, a, b) : <<a, b>> \in
        {r \in (1..Len(t)) \X (1..Len(t)) :
           /\ r[1] <= r[2]
           /\ \A k \in r[1]..r[2] : IsWordChar(t[k])
           /\ (r[1] = 1 \/ ~IsWordChar(t[r[1] - 1]))
           /\ (r[2] = Len(t) \/ ~IsWordChar(t[r[2] + 1]))}}

\* the positions of embedding[position] += ... over every word and i = 0..4
WrittenPositions(text, size) ==
  {Position(simpleHash(word), i, size) : word \in WordsOf(text), i \in 0..4}

\* new Array(this.config.vectorSize).fill(0)
NewEmbedding(size) ==
  [length |-> size, at |-> [k \in 0..(size - 1) |-> "0"], props |-> {}]

\* embedding[position] += a positive number, on a JavaScript array: an index
\* past the end lengthens the array, a negative index adds a property
AddAt(embedding, position) ==
  IF position \in 0..(embedding.length - 1)
  THEN [embedding EXCEPT !.at[position] = IF @ = "0" THEN "+" ELSE @]
  ELSE IF position >= embedding.length
  THEN [length |-> position + 1,
        at |-> [k \in 0..position |->
                  IF k < embedding.length THEN embedding.at[k]
                  ELSE IF k = position THEN "NaN" ELSE "empty"],
        props |-> embedding.props]
  ELSE [embedding EXCEPT !.props = @ \cup {position}]

RECURSIVE AddAll(_, _)
AddAll(embedding, positions) ==
  IF positions = {} THEN embedding
  ELSE LET position == CHOOSE p \in positions : TRUE
       IN AddAll(AddAt(embedding, position), positions \ {position})

\* for (i < Math.min(100, vectorSize)) if (embedding[i] === 0)
\*   embedding[i] = (textLength * uniqueChars * Math.sin(i * 0.01)) / 10000
FillStatistics(embedding, text) ==
  [embedding EXCEPT !.at =
     [k \in DOMAIN embedding.at |->
        IF k < 100 /\ k < embedding.length /\ embedding.at[k] = "0"
             /\ Len(text) > 0 /\ k > 0
        THEN "+" ELSE embedding.at[k]]]

\* magnitude > 0 ? embedding.map(val => val / magnitude) : embedding
Normalize(embedding) ==
  IF (\E k \in DOMAIN embedding.at : embedding.at[k] = "NaN") \/ embedding.props # {}
  THEN embedding
  ELSE IF \E k \in DOMAIN embedding.at : embedding.at[k] = "+"
  THEN [embedding EXCEPT !.props = {}]
  ELSE embedding

generateSimpleEmbeddingArray(text, size) ==
  Normalize(FillStatistics(AddAll(NewEmbedding(size),
                                  WrittenPositions(text, size)), text))

\* the configured sizes the embedding is computed for
DrawnSizes == {1, 2, 3, 5, 99, 100, 101, 307, DefaultVectorSize}

EmbeddedTexts ==
  {<<>>, <<" ">>, <<"a">>, <<".", ",">>,
   <<"d", "o", "l", "a", "r">>,
   <<"D", "o", "l", "a", "r", " ", "d", "o", "l", "a", "r">>,
   <<"e", "k", "o", "n", "o", "m", "i">>,
   <<"e", "n", "f", "l", "a", "s", "y", "o", "n", " ", "2", "0", "2", "4">>,
   <<"m", "i", "l", "l", "e", "t", "v", "e", "k", "i", "l", "i", ",", " ",
     "m", "a", CCedilla>>,
   <<"t", "e", "l", "e", "f", "o", "n", " ", "f", "a", "i", "z", " ", "t", "c", "m", "b">>}

\* generateSimpleEmbedding(text) of a service configured with a vector size
ApplyGenerateSimpleEmbedding ==
  /\ applied.fn = "generateSimpleEmbedding"
  /\ applied.returned = <<>>
  /\ applied' = [applied EXCEPT
                   !.returned = <<generateSimpleEmbeddingArray(applied.args[1], applied.args[2])>>]
  /\ UNCHANGED programVars

InitEmbedding ==
  /\ ProgramIdle
  /\ applied \in {Pending("generateSimpleEmbedding", <<text, size>>) :
                    text \in EmbeddedTexts, size \in DrawnSizes}

NextEmbedding == ApplyGenerateSimpleEmbedding

SpecEmbedding == InitEmbedding /\ [][NextEmbedding]_vars

\* C24: for every text and every configured size D >= 1 the fallback
\* embedding has exactly D elements, every position written for a word lies in
\* 0..D-1, simpleHash being a non-negative integer after the 32-bit
\* wrap-around, and the embedding of the empty text is all zero.
C24_FallbackShape ==
  (applied.fn = "generateSimpleEmbedding" /\ applied.returned # <<>>) =>
    LET text == applied.args[1]
        D == applied.args[2]
        embedding == applied.returned[1]
    IN /\ embedding.length = D
       /\ DOMAIN embedding.at = 0..(D - 1)
       /\ embedding.props = {}
       /\ WrittenPositions(text, D) \subseteq 0..(D - 1)
       /\ \A word \in WordsOf(text) : ~simpleHash(word).neg
       /\ text = <<>> => \A k \in 0..(D - 1) : embedding.at[k] = "0"

\* an embedding of the default size has been computed for a text with a word
\* whose 32-bit hash wrapped around to a negative integer
C24_Witness ==
  /\ applied.fn = "generateSimpleEmbedding"
  /\ applied.returned # <<>>
  /\ applied.args[2] = DefaultVectorSize
  /\ \E word \in WordsOf(applied.args[1]) : Hash32(word, Len(word)).hi >= 32768
  /\ \E k \in 100..(DefaultVectorSize - 1) : applied.returned[1].at[k] = "+"

(***************************************************************************)
(* Content normalizer: validatePostContent, the variant that looks for the *)
(* body in several fields, and both variants applied to drawn records.     *)
(***************************************************************************)
PermissiveMinContentLength == 5
PermissiveMaxTitleLength == 500
DraftStatus == 0

\* contentText: the first truthy one of content.text, text, body, summary,
\* seo_description, else ''
ResolvedContent(post) ==
  IF ~Falsy(post.text) THEN post.text
  ELSE IF ~Falsy(post.altText) THEN post.altText
  ELSE IF ~Falsy(post.body) THEN post.body
  ELSE IF ~Falsy(post.summary) THEN post.summary
  ELSE IF ~Falsy(post.seo_description) THEN post.seo_description
  ELSE Str(<<>>)

\* .trim() and .replace() of a truthy value that is no string
PermissiveThrows(post) ==
  \/ (~Falsy(post.title) /\ post.title.t # "string")
  \/ (~Falsy(ResolvedContent(post)) /\ ResolvedContent(post).t # "string")

PermissiveIssues(post) ==
  LET contentText == ResolvedContent(post)
      cleanContent == cleanHtmlContent(contentText.s)
  IN (IF Falsy(post.title) \/ Trim(post.title.s) = <<>>
        THEN <<"Missing or empty title">> ELSE <<>>)
  \o (IF Falsy(contentText) \/ Trim(contentText.s) = <<>>
        THEN <<"Missing or empty content in all possible fields">> ELSE <<>>)
  \o (IF Len(cleanContent) < PermissiveMinContentLength
        THEN <<"Content too short (" \o ToString(Len(cleanContent))
                 \o " chars, minimum 5 characters)">>
        ELSE <<>>)
  \o (IF ~Falsy(post.title) /\ Len(post.title.s) > PermissiveMaxTitleLength
        THEN <<"Title too long (maximum 500 characters)">> ELSE <<>>)
  \o (IF post.status # PublishedStatus /\ post.status # DraftStatus
        THEN <<"Post status is " \o ToString(post.status) \o " (unusual status)">>
        ELSE <<>>)

validatePostContentPermissive(post) ==
  IF PermissiveThrows(post)
  THEN [threw |-> TRUE, isValid |-> FALSE, issues |-> <<>>]
  ELSE LET issues == PermissiveIssues(post)
       IN [threw |-> FALSE, isValid |-> issues = <<>>, issues |-> issues]

\* the titles, bodies and statuses of the records the validators are applied to
DrawnTitles ==
  {Undefined, Str(<<>>), Str(<<" ", " ">>), Str(<<"t">>)}
    \cup {Str(Repeat("t", n)) : n \in {MaxTitleLength, MaxTitleLength + 1,
                                       PermissiveMaxTitleLength,
                                       PermissiveMaxTitleLength + 1}}

DrawnBodies ==
  {Undefined, Str(<<>>), Str(<<" ">>), NotAString, Str(ValidBody)}
    \cup {Str(<<"<", "p", ">">> \o Repeat("a", n)) :
            n \in {PermissiveMinContentLength - 1, PermissiveMinContentLength,
                   MinContentLength - 1}}

\* a body in one of the later fields, long enough for either validator
LaterBody(c) == {Undefined, Str(Repeat(c, MinContentLength))}

ValidatedPosts ==
  {[_id |-> ObjectId(1), title |-> title, text |-> text, altText |-> altText,
    body |-> body, summary |-> summary, seo_description |-> seo,
    status |-> status, created_at |-> 1, published_at |-> 1] :
     title \in DrawnTitles, text \in DrawnBodies, altText \in LaterBody("b"),
     body \in LaterBody("c"), summary \in LaterBody("d"), seo \in LaterBody("e"),
     status \in {DraftStatus, PublishedStatus, PublishedStatus + 1}}

\* validatePostContent(post) of lib/mongodb
ApplyValidatePostContent ==
  /\ applied.fn = "validatePostContent"
  /\ applied.returned = <<>>
  /\ applied' = [applied EXCEPT !.returned = <<validatePostContent(applied.args[1])>>]
  /\ UNCHANGED programVars

\* validatePostContent(post) of the variant with several body fields
ApplyValidatePostContentPermissive ==
  /\ applied.fn = "validatePostContentPermissive"
  /\ applied.returned = <<>>
  /\ applied' = [applied EXCEPT
                   !.returned = <<validatePostContentPermissive(applied.args[1])>>]
  /\ UNCHANGED programVars

InitValidate ==
  /\ ProgramIdle
  /\ applied \in {Pending(fn, <<post>>) :
                    fn \in {"validatePostContent", "validatePostContentPermissive"},
                    post \in ValidatedPosts}

NextValidate == ApplyValidatePostContent \/ ApplyValidatePostContentPermissive

SpecValidate == InitValidate /\ [][NextValidate]_vars

\* the body text a variant validates: content.text, or the resolved field
BodyValidated(fn, post) ==
  IF fn = "validatePostContent" THEN OrElse(post.text, Str(<<>>)) ELSE ResolvedContent(post)

\* every rule of a variant passes for the record
AllRulesPass(fn, post) ==
  LET strict == fn = "validatePostContent"
      body == BodyValidated(fn, post)
  IN /\ post.title.t = "string" /\ Trim(post.title.s) # <<>>
     /\ body.t = "string" /\ Trim(body.s) # <<>>
     /\ Len(cleanHtmlContent(body.s)) >=
          (IF strict THEN MinContentLength ELSE PermissiveMinContentLength)
     /\ Len(post.title.s) <= (IF strict THEN MaxTitleLength ELSE PermissiveMaxTitleLength)
     /\ post.status \in (IF strict THEN {PublishedStatus} ELSE {PublishedStatus, DraftStatus})

BlankTitle(post) == Falsy(post.title) \/ (post.title.t = "string" /\ Trim(post.title.s) = <<>>)

HasIssue(verdict, issue) == \E k \in 1..Len(verdict.issues) : verdict.issues[k] = issue

Validated == applied.fn \in {"validatePostContent", "validatePostContentPermissive"}
               /\ applied.returned # <<>>

\* C25 as stated: validatePostContent returns isValid = true exactly when every
\* rule passes, that is exactly when the issues list is empty, and a record
\* with an empty or whitespace-only title is invalid with the issue 'Missing or
\* empty title' regardless of its other fields.
C25_ValidationVerdict ==
  Validated =>
    \E verdict \in {applied.returned[1]} :
      /\ ~verdict.threw =>
           /\ verdict.isValid = (verdict.issues = <<>>)
           /\ verdict.isValid = AllRulesPass(applied.fn, applied.args[1])
      /\ BlankTitle(applied.args[1]) =>
           /\ ~verdict.threw
           /\ ~verdict.isValid
           /\ HasIssue(verdict, "Missing or empty title")

\* C25, amended: the same for every record whose validated body is absent,
\* empty or a string; a truthy body that is no string makes the validator
\* throw before it returns a verdict.
C25_VerdictOfReturnedCalls ==
  Validated =>
    \E verdict \in {applied.returned[1]} :
      /\ verdict.threw = (/\ ~Falsy(BodyValidated(applied.fn, applied.args[1]))
                         /\ BodyValidated(applied.fn, applied.args[1]).t # "string")
      /\ ~verdict.threw =>
           /\ verdict.isValid = (verdict.issues = <<>>)
           /\ verdict.isValid = AllRulesPass(applied.fn, applied.args[1])
           /\ BlankTitle(applied.args[1]) =>
                ~verdict.isValid /\ HasIssue(verdict, "Missing or empty title")

\* a record with a whitespace-only title and every other rule passing has
\* been validated
C25_Witness ==
  /\ Validated
  /\ applied.args[1].title = Str(<<" ", " ">>)
  /\ applied.args[1].text = Str(ValidBody)
  /\ applied.args[1].status = PublishedStatus
  /\ applied.returned[1].issues = <<"Missing or empty title">>

\* the fields a body text can stand in, in the order of the specification
BodyCandidates(post) ==
  <<post.text, post.altText, post.body, post.summary, post.seo_description>>

\* the first candidate that is not empty, '' when there is none
FirstBody(post) ==
  LET filled == {k \in 1..Len(BodyCandidates(post)) : ~Falsy(BodyCandidates(post)[k])}
  IN IF filled = {} THEN Str(<<>>)
     ELSE BodyCandidates(post)[CHOOSE k \in filled : \A j \in filled : k <= j]

\* C26: the validator resolves the body text of a record from the first
\* non-empty one of content.text, text, body, summary and SEO description
\* and requires it to be non-empty: a record whose title and status pass is
\* valid exactly when that body passes the body rules, also when the body
\* stands in a later field only.
C26_BodyResolutionOrder ==
  Validated =>
    \E verdict \in {applied.returned[1]}, post \in {applied.args[1]} :
      (/\ ~verdict.threw
       /\ ~BlankTitle(post)
       /\ Len(post.title.s) <= MaxTitleLength
       /\ post.status = PublishedStatus
       /\ FirstBody(post).t = "string")
        => verdict.isValid =
             (/\ Trim(FirstBody(post).s) # <<>>
              /\ Len(cleanHtmlContent(FirstBody(post).s)) >=
                   (IF applied.fn = "validatePostContent"
                    THEN MinContentLength ELSE PermissiveMinContentLength))

(***************************************************************************)
(* The orchestrators with their awaited writes as positions of their own:  *)
(* applied holds the call a migration is waiting for.                      *)
(***************************************************************************)
\* what a step that only sends or settles an awaited write of processBatch
\* leaves alone
awaitVars == <<collection, batchSize, runs, prev, vectorVars, runVars,
               qdrant_collection, initLog, ensured, jobs, responses, routeVars, cleaned,
               news_channels, defaultChannelId, client, pc, call, options, channelId,
               migrationJob, loopVars, posts, outcome, thrown, fetches, handed,
               statuses>>

\* processBatch: transformPost has returned data for the record and
\* newsArticlesApi.create(articleData) is awaited
SendCreate ==
  /\ pc = "processBatch"
  /\ idx <= Len(posts)
  /\ applied = NoApplied
  /\ \E transformation \in {transformPost(posts[idx], channelId)} :
       /\ transformation.success /\ transformation.hasData
       /\ applied' = Pending("newsArticlesApi.create", <<transformation.data>>)
  /\ UNCHANGED programVars

\* processBatch: the awaited create returns or is rejected; results.successful++
\* or the catch block
CreateSettled ==
  /\ pc = "processBatch"
  /\ applied.fn = "newsArticlesApi.create"
  /\ \E post \in {posts[idx]} : \E transformation \in {transformPost(post, channelId)} :
       \/ /\ requests' = Append(requests, ArticleRequest(TRUE))
          /\ news_articles' = Append(news_articles, applied.args[1])
          /\ results' = RecordResult(results, post, transformation, NoError)
          /\ outcomes' = Append(outcomes, RecordOutcome(transformation, NoError))
       \/ /\ requests' = Append(requests, ArticleRequest(FALSE))
          /\ \E e \in SupabaseErrors :
               /\ results' = RecordResult(results, post, transformation, e)
               /\ outcomes' = Append(outcomes, RecordOutcome(transformation, e))
          /\ UNCHANGED news_articles
  /\ idx' = idx + 1
  /\ applied' = NoApplied
  /\ UNCHANGED awaitVars

\* processBatch: a pass for a record that is skipped or fails in transformPost
SettleWithoutCreate ==
  /\ pc = "processBatch"
  /\ idx <= Len(posts)
  /\ \E transformation \in {transformPost(posts[idx], channelId)} :
       ~(transformation.success /\ transformation.hasData)
  /\ ProcessPost

\* migrateToVectorOnly: a pass of the while loop up to the await of
\* storeArticlesBatch(vectorArticles); a pass that writes nothing runs to its end
VectorOnlyTransform ==
  /\ mfn = "migrateToVectorOnly"
  /\ mpc = "loop"
  /\ IF ~(currentOffset < totalPosts /\ result.processed < EffectiveLimit(mopts.limit))
     THEN /\ mpc' = "finish"
          /\ UNCHANGED <<result, currentOffset, uuids, moutcome, mfetches, applied>>
     ELSE \E remainingLimit \in
             {Min(batchSize, EffectiveLimit(mopts.limit) - result.processed)} :
          /\ mfetches' = Append(mfetches, BatchFetch(currentOffset, remainingLimit, NoId))
          /\ \/ \* fetchPosts is rejected
                /\ VectorOnlyThrow
                /\ UNCHANGED <<currentOffset, uuids, applied>>
             \/ \E batch \in {fetchPosts(collection, remainingLimit, currentOffset,
                                         NoDate, NoDate, NoId)} :
                IF batch = <<>>
                THEN /\ mpc' = "finish"
                     /\ UNCHANGED <<result, currentOffset, uuids, moutcome, applied>>
                ELSE \E acc \in {VectorOnlyLoop(batch, 1, NoBatch(result, uuids))} :
                     /\ uuids' = acc.uuids
                     /\ moutcome' = moutcome
                     /\ IF ~mopts.dryRun /\ acc.data # <<>>
                        THEN /\ result' = acc.result
                             /\ applied' = Pending("storeArticlesBatch",
                                                   <<acc.data, remainingLimit>>)
                             /\ mpc' = "storing"
                             /\ UNCHANGED currentOffset
                        ELSE /\ result' = IF mopts.dryRun
                                          THEN [acc.result EXCEPT
                                                  !.inserted = @ + Len(acc.data)]
                                          ELSE acc.result
                             /\ currentOffset' = currentOffset + remainingLimit
                             /\ mpc' = "loop"
                             /\ UNCHANGED applied
  /\ UNCHANGED <<mfn, mopts, totalPosts, vectorBatch, mwrites, qdrant_points, upserts,
                 qdrant_collection, initLog, news_articles, callVars, stepVars,
                 ensured, jobs, responses, routeVars, cleaned>>

\* migrateToVectorOnly: the awaited storeArticlesBatch returns or is rejected;
\* result.inserted += or the catch block, then the new offset
VectorOnlyStored ==
  /\ mfn = "migrateToVectorOnly"
  /\ mpc = "storing"
  /\ \E vectorArticles \in {applied.args[1]}, ok \in BOOLEAN :
     \E store \in {storeArticlesBatch(vectorArticles, qdrant_points, vectorSize, ok)} :
       /\ store.threw = ~ok
       /\ qdrant_points' = store.stored
       /\ upserts' = Logged(upserts, store, ok)
       /\ mwrites' = Append(mwrites, BatchWrite("vectors", Len(vectorArticles), ok, TRUE))
       /\ result' = IF store.threw
                    THEN ErrorDetail([result EXCEPT !.errors = @ + Len(vectorArticles)],
                                     BatchPostId, "upsert rejected")
                    ELSE [result EXCEPT !.inserted = @ + Len(vectorArticles)]
  /\ currentOffset' = currentOffset + applied.args[2]
  /\ mpc' = "loop"
  /\ applied' = NoApplied
  /\ UNCHANGED <<mfn, mopts, totalPosts, vectorBatch, uuids, moutcome, mfetches,
                 qdrant_collection, initLog, news_articles, callVars, stepVars,
                 ensured, jobs, responses, routeVars, cleaned>>

\* migrateWithVectors: a pass of the while loop up to the await of the insert
\* into news_articles; a pass that inserts nothing runs to its end
WithVectorsTransform ==
  /\ mfn = "migrateWithVectors"
  /\ mpc = "loop"
  /\ IF ~(currentOffset < totalPosts
          /\ (mopts.limit = 0 \/ result.processed < mopts.limit))
     THEN /\ mpc' = "finish"
          /\ UNCHANGED <<result, currentOffset, moutcome, mfetches, applied>>
     ELSE \E remainingLimit \in
             {IF mopts.limit # 0 THEN Min(batchSize, mopts.limit - result.processed)
              ELSE batchSize} :
          /\ mfetches' = Append(mfetches, BatchFetch(currentOffset, remainingLimit, NoId))
          /\ \/ \* fetchPosts is rejected
                /\ WithVectorsFail(result)
                /\ UNCHANGED <<currentOffset, applied>>
             \/ \E batch \in {fetchPosts(collection, remainingLimit, currentOffset,
                                         NoDate, NoDate, NoId)} :
                IF batch = <<>>
                THEN /\ mpc' = "finish"
                     /\ UNCHANGED <<result, currentOffset, moutcome, applied>>
                ELSE \E acc \in {WithVectorsLoop(batch, 1, NoBatch(result, uuids), 1)} :
                     /\ moutcome' = moutcome
                     /\ IF mopts.dryRun \/ acc.data = <<>>
                        THEN /\ result' = IF mopts.dryRun
                                          THEN [acc.result EXCEPT
                                                  !.inserted = @ + Len(acc.data)]
                                          ELSE acc.result
                             /\ currentOffset' = currentOffset + Len(batch)
                             /\ mpc' = "loop"
                             /\ UNCHANGED applied
                        ELSE /\ result' = acc.result
                             /\ applied' = Pending("news_articles.insert",
                                                   <<acc.data, batch>>)
                             /\ mpc' = "inserting"
                             /\ UNCHANGED currentOffset
  /\ UNCHANGED <<mfn, mopts, totalPosts, vectorBatch, uuids, mwrites, qdrant_points,
                 upserts, qdrant_collection, initLog, news_articles, callVars,
                 stepVars, ensured, jobs, responses, routeVars, cleaned>>

\* migrateWithVectors: the awaited insert returns; result.errors += or
\* result.inserted +=, the vector batch and its flush, then the new offset
WithVectorsInserted ==
  /\ mfn = "migrateWithVectors"
  /\ mpc = "inserting"
  /\ \E data \in {applied.args[1]}, batch \in {applied.args[2]} :
     \E n \in {Len(data)} :
       \/ \* the insert returns an error, or is rejected
          /\ result' = ErrorDetail([result EXCEPT !.errors = @ + n],
                                   BatchPostId, "insert rejected")
          /\ mwrites' = Append(mwrites, BatchWrite("news_articles", n, FALSE, TRUE))
          /\ UNCHANGED <<vectorBatch, news_articles, qdrant_points, upserts>>
       \/ \E pending \in
             {IF mopts.enableVectors
              THEN vectorBatch \o VectorArticles(batch, n, Len(news_articles) + 1, 1, 1)
              ELSE vectorBatch} :
          /\ news_articles' = news_articles \o data
          /\ IF mopts.enableVectors /\ Len(pending) >= batchSize
             THEN \E ok \in BOOLEAN :
                  \E store \in {storeArticlesBatch(pending, qdrant_points,
                                                   vectorSize, ok)} :
                    /\ store.threw = ~ok
                    /\ qdrant_points' = store.stored
                    /\ upserts' = Logged(upserts, store, ok)
                    /\ mwrites' = mwrites \o
                         <<BatchWrite("news_articles", n, TRUE, TRUE),
                           BatchWrite("vectors", Len(pending), ok, TRUE)>>
                    /\ vectorBatch' = IF ok THEN <<>> ELSE pending
                    /\ result' =
                         IF ok THEN [result EXCEPT !.inserted = @ + n]
                         ELSE ErrorDetail([result EXCEPT !.inserted = @ + n,
                                                         !.errors = @ + n],
                                          BatchPostId, "upsert rejected")
             ELSE /\ vectorBatch' = pending
                  /\ mwrites' = Append(mwrites,
                                       BatchWrite("news_articles", n, TRUE, TRUE))
                  /\ result' = [result EXCEPT !.inserted = @ + n]
                  /\ UNCHANGED <<qdrant_points, upserts>>
  /\ currentOffset' = currentOffset + Len(applied.args[2])
  /\ mpc' = "loop"
  /\ applied' = NoApplied
  /\ UNCHANGED <<mfn, mopts, totalPosts, uuids, moutcome, mfetches, qdrant_collection,
                 initLog, callVars, stepVars, ensured, jobs, responses, routeVars, cleaned>>

InitAwait ==
  /\ Init
  /\ Len(collection) <= MaxRerunPosts

\* a migration is called only on an instance that is running none
NextAwait ==
  \/ \E dry \in BOOLEAN, from \in {NoDate, 2} :
       mpc = "idle" /\ CallMigrateAllPosts(dry, from)
  \/ Connect
  \/ EnsureDefaultChannel
  \/ CreateChannel
  \/ CountPosts
  \/ FetchBatch
  \/ SendCreate
  \/ CreateSettled
  \/ SettleWithoutCreate
  \/ EndBatch
  \/ Disconnect
  \/ \E limit \in Limits, dry \in BOOLEAN :
       pc = "idle" /\ CallMigrateToVectorOnly(limit, 0, dry)
  \/ VectorOnlyStart
  \/ VectorOnlyTransform
  \/ VectorOnlyStored
  \/ VectorOnlyFinish
  \/ \E limit \in Limits, dry \in BOOLEAN, enableVectors \in BOOLEAN :
       pc = "idle" /\ CallMigrateWithVectors(limit, 0, dry, enableVectors)
  \/ WithVectorsStart
  \/ WithVectorsTransform
  \/ WithVectorsInserted
  \/ WithVectorsFinish

SpecAwait == InitAwait /\ [][NextAwait]_vars

\* the step sends the batch write of a batch migration and waits for it
SendsBatchWrite == mpc = "loop" /\ mpc' \in {"storing", "inserting"}

\* the step sends the create of processBatch and waits for it
SendsCreate == applied.fn = "none" /\ applied'.fn = "newsArticlesApi.create"

\* C27 as stated: in every orchestrator path each increment of a counter for
\* a record (processed, inserted or successful, skipped, failed) happens only
\* after the transform or remote call for that record or batch has returned:
\* a step that ends at an awaited write has counted none of the records of
\* that write.
C27_CountersAfterReturn ==
  [][/\ SendsCreate => (results' = results /\ migrationJob' = migrationJob)
     /\ SendsBatchWrite =>
          /\ result'.inserted = result.inserted
          /\ result'.processed - result.processed =
               (result'.skipped - result.skipped) + (result'.errors - result.errors)]_vars

\* C27, amended: successful, skipped, failed, inserted and errors change only
\* after the transform or write of their record or batch has returned, and the
\* job counters only after processBatch has returned; processed of the batch
\* migrations is counted when the loop takes up a record, so a step that ends
\* at an awaited batch write has counted the records of that write as
\* processed and as nothing else.
C27_ProcessedRunsAhead ==
  [][/\ SendsCreate => (results' = results /\ migrationJob' = migrationJob)
     /\ pc = "processBatch" /\ pc' = "processBatch" => migrationJob' = migrationJob
     /\ SendsBatchWrite =>
          /\ result'.inserted = result.inserted
          /\ result'.processed - result.processed =
               (result'.skipped - result.skipped) + (result'.errors - result.errors)
                 + Len(applied'.args[1])]_vars

\* migrateToVectorOnly waits for storeArticlesBatch with records counted as
\* processed that are neither inserted, skipped nor errors yet
C27_Witness ==
  /\ mpc = "storing"
  /\ applied.fn = "storeArticlesBatch"
  /\ result.processed > result.inserted + result.skipped + result.errors
  /\ result.skipped > 0

(***************************************************************************)
(* Properties of the batch write to the vector index.                      *)
(***************************************************************************)
\* the identifiers of a sequence of articles or points, in order
IdsOf(s) == [k \in 1..Len(s) |-> s[k].id]

SourceIds == {IdToString(collection[k]._id) : k \in 1..Len(collection)}

\* C29: every vector point produced for a source record, on the vector-only
\* path and on the path that writes rows and vectors, has an identifier and
\* keeps the identifier of its source record in its payload.
C29_PointIdentity ==
  \A k \in 1..Len(upserts) : \A j \in 1..Len(upserts[k].points) :
    /\ upserts[k].points[j].id # 0
    /\ upserts[k].points[j].payload.original_mongo_id \in SourceIds

\* C30: in migrateAllPosts, after every completed batch processed_records +
\* failed_records is the number of records in all batches fetched so far, and
\* neither counter of a job ever decreases.
C30_CounterConservation ==
  [][/\ (pc = "processBatch" /\ pc' = "fetch") =>
          migrationJob'.processed_records + migrationJob'.failed_records = Len(handed')
     /\ (migrationJob.status # "none" /\ migrationJob'.status # "none") =>
          /\ migrationJob'.processed_records >= migrationJob.processed_records
          /\ migrationJob'.failed_records >= migrationJob.failed_records]_vars

\* a batch of more than one record has been completed, and the job has
\* counted a processed and a failed record
C30_Witness ==
  /\ pc = "fetch"
  /\ Len(fetches) >= 1
  /\ Len(handed) >= 2
  /\ migrationJob.processed_records > 0
  /\ migrationJob.failed_records > 0
  /\ migrationJob.processed_records + migrationJob.failed_records = Len(handed)

(***************************************************************************)
(* Coverage of the source by migrateAllPosts.                               *)
(***************************************************************************)
\* the identifiers of the records the run's filter matches, in source order
MatchingIds == [k \in 1..Len(Matching) |-> Matching[k]._id.v]

\* C31: with every remote call succeeding, a dryRun = false run of
\* migrateAllPosts hands every matching record to processBatch exactly once,
\* each fetch after the first carries the string form of the last identifier
\* handed over, and at completion processed_records + failed_records equals
\* total_records.
C31_ExactlyOnceCoverage ==
  (/\ pc = "done"
   /\ call.fn = "migrateAllPosts"
   /\ ~options.dryRun
   /\ outcome = "returned"
   /\ migrationJob.status = "completed"
   /\ AllWritesOk)
  => /\ handed = MatchingIds
     /\ \A k \in 2..Len(fetches) : fetches[k].bson = "string"
     /\ migrationJob.processed_records + migrationJob.failed_records
          = migrationJob.total_records

(***************************************************************************)
(* migrateWithVectors on records that differ in title and body.             *)
(***************************************************************************)
PairedKinds == {"valid", "blankTitle", "emptyBody"}

\* the document with identifier n: its title and body name n; a title of
\* white space fails validatePostContent and is truthy for transformToVector
PairedPost(kind, n) ==
  [PostOfKind("valid", n) EXCEPT
     !.title = IF kind = "blankTitle" THEN Str(<<" ">>)
               ELSE Str(<<"t", Digits[n + 1]>>),
     !.text = IF kind = "emptyBody" THEN Str(<<>>)
              ELSE Str(ValidBody \o <<Digits[n + 1]>>)]

PairedSources ==
  UNION {{[n \in 1..len |-> PairedPost(kinds[n], n)] : kinds \in [1..len -> PairedKinds]}
         : len \in 0..MaxRerunPosts}

InitPairing ==
  /\ VectorIdle
  /\ EtlIdle
  /\ RestIdle
  /\ collection \in PairedSources
  /\ news_channels = <<[id |-> 1, name |-> DefaultChannelName]>>
  /\ batchSize \in 1..MaxBatch

NextPairing ==
  \/ \E limit \in Limits, dry \in BOOLEAN, enableVectors \in BOOLEAN :
       CallMigrateWithVectors(limit, 0, dry, enableVectors)
  \/ WithVectorsStart
  \/ WithVectorsBatch
  \/ WithVectorsFinish

SpecPairing == InitPairing /\ [][NextPairing]_vars

\* the row of news_articles with this identifier has this title and content
SameRecord(id, title, content) ==
  /\ id \in 1..Len(news_articles)
  /\ news_articles[id].title = title
  /\ news_articles[id].content = content

\* C32: in migrateWithVectors every vector point queued with the identifier of
\* an inserted row of news_articles carries the title and the content of that
\* row's source record, also when records of the batch were skipped or failed
\* before the insert.
C32_VectorPairing ==
  /\ \A k \in 1..Len(vectorBatch) :
       SameRecord(vectorBatch[k].id, vectorBatch[k].title, vectorBatch[k].content)
  /\ \A u \in 1..Len(upserts) : \A k \in 1..Len(upserts[u].points) :
       \E p \in {upserts[u].points[k]} :
         SameRecord(p.id, p.payload.title, p.payload.content)

(***************************************************************************)
(* migrateToVectorOnly on records some of which carry no date.              *)
(***************************************************************************)
DatedKinds == {"valid", "undated", "emptyBody"}

\* the document with identifier n; an undated one has neither published_at
\* nor created_at
DatedPost(kind, n) ==
  IF kind = "undated"
  THEN [PostOfKind("valid", n) EXCEPT !.published_at = NoDate, !.created_at = NoDate]
  ELSE PostOfKind(kind, n)

DatedSources ==
  UNION {{[n \in 1..len |-> DatedPost(kinds[n], n)] : kinds \in [1..len -> DatedKinds]}
         : len \in 0..MaxRerunPosts}

InitInserted ==
  /\ VectorIdle
  /\ EtlIdle
  /\ RestIdle
  /\ collection \in DatedSources
  /\ news_channels = <<[id |-> 1, name |-> DefaultChannelName]>>
  /\ batchSize \in 1..MaxBatch

NextInserted ==
  \/ \E limit \in Limits, dry \in BOOLEAN : CallMigrateToVectorOnly(limit, 0, dry)
  \/ VectorOnlyStart
  \/ VectorOnlyBatch
  \/ VectorOnlyFinish

SpecInserted == InitInserted /\ [][NextInserted]_vars

\* the number of points in the first k upsert requests that the index accepted
RECURSIVE PointsStored(_)
PointsStored(k) ==
  IF k = 0 THEN 0
  ELSE PointsStored(k - 1) + (IF upserts[k].ok THEN Len(upserts[k].points) ELSE 0)

\* C33: after a dryRun = false run of migrateToVectorOnly, result.inserted is
\* the number of points sent to the vector index in upsert requests that
\* succeeded, also when storeArticlesBatch left out a point it could not
\* prepare.
C33_InsertedIsTruthful ==
  (/\ mfn = "migrateToVectorOnly"
   /\ ~mopts.dryRun
   /\ mpc = "done")
  => result.inserted = PointsStored(Len(upserts))

(***************************************************************************)
(* The transformers and the validator they call, for both variants of      *)
(* validatePostContent.                                                     *)
(***************************************************************************)
\* transformPost and transformPostToVector when './mongodb' is the variant
\* of validatePostContent with several body fields
transformPostPermissive(post, chId) ==
  TransformWith(validatePostContentPermissive(post), post, chId)

transformPostToVectorPermissive(mongoPost, uuid) ==
  VectorTransformWith(validatePostContentPermissive(mongoPost), mongoPost, uuid)

Transformers == {"transformPost", "transformPostPermissive",
                 "transformPostToVector", "transformPostToVectorPermissive"}

\* the variant of validatePostContent a transformer calls
ValidatorOf(fn) ==
  IF fn \in {"transformPost", "transformPostToVector"}
  THEN "validatePostContent" ELSE "validatePostContentPermissive"

ApplyTransformer ==
  /\ applied.fn \in Transformers
  /\ applied.returned = <<>>
  /\ \E post \in {applied.args[1]} :
       applied' = [applied EXCEPT !.returned =
         <<CASE applied.fn = "transformPost" -> transformPost(post, 1)
             [] applied.fn = "transformPostPermissive" -> transformPostPermissive(post, 1)
             [] applied.fn = "transformPostToVector" -> transformPostToVector(post, 1)
             [] OTHER -> transformPostToVectorPermissive(post, 1)>>]
  /\ UNCHANGED programVars

InitAgree ==
  /\ ProgramIdle
  /\ applied \in {Pending(fn, <<post>>) : fn \in Transformers, post \in ValidatedPosts}

NextAgree == ApplyTransformer

SpecAgree == InitAgree /\ [][NextAgree]_vars

\* C34: whenever transformPost or transformPostToVector returns success for a
\* record, the content it emits is the cleaned form of the body text its
\* validator accepted, so it is not empty and has at least the validator's
\* minimum length - also for a record whose body is only in a later field.
C34_ValidatorTransformerAgree ==
  (/\ applied.fn \in Transformers
   /\ applied.returned # <<>>
   /\ applied.returned[1].success)
  => \E post \in {applied.args[1]} : \E content \in {applied.returned[1].data.content} :
       /\ AllRulesPass(ValidatorOf(applied.fn), post)
       /\ content = cleanHtmlContent(BodyValidated(ValidatorOf(applied.fn), post).s)
       /\ content # <<>>
       /\ Len(content) >= (IF ValidatorOf(applied.fn) = "validatePostContent"
                           THEN MinContentLength ELSE PermissiveMinContentLength)

(***************************************************************************)
(* The start route and the status route of the API, on one process: every  *)
(* accepted POST starts a migration and stores its promise under a job id   *)
(* made of the clock; GET looks the id up and races the promise.  A         *)
(* migration is the promise of migrateAllPosts: pending until it settles    *)
(* with a finished job or with an error.                                    *)
(***************************************************************************)
MaxStarts == 2     \* accepted start requests
MaxClock == 1      \* milliseconds that pass

\* what the routes leave alone: the services and the histories of their calls
servicesVars == <<callVars, news_articles, vectorVars, runVars, qdrant_collection,
                  initLog, ensured, jobs, responses, cleaned, applied>>

\* `migration_${Date.now()}`: the job id is the clock value
JobIdAt(time) == time

\* what migrateAllPosts can resolve with
ResolvedJobs ==
  {Finalize([NewJob(1, 1) EXCEPT !.processed_records = 1]),
   Finalize(FailJob(NewJob(1, 1), MongoError))}

\* a promise of migrateAllPosts that has not settled
PendingMigration(jobId) ==
  [jobId |-> jobId, pc |-> "running", outcome |-> "pending", job |-> NoJob,
   thrown |-> NoError]

\* global.migrationJobs.set(jobId, migrationPromise)
MapSet(map, key, value) ==
  [k \in DOMAIN map \cup {key} |-> IF k = key THEN value ELSE map[k]]

\* POST /api/migration/start with connectionString and databaseName: the
\* migration is started, the job id is made, the promise is stored, and 202
\* is answered with the job id (kept in the promise's record)
StartMigration ==
  /\ Len(promises) < MaxStarts
  /\ promises' = Append(promises, PendingMigration(JobIdAt(now)))
  /\ migrationJobs' = MapSet(migrationJobs, JobIdAt(now), Len(promises) + 1)
  /\ UNCHANGED <<now, polls, servicesVars>>

\* a millisecond passes
Tick ==
  /\ now < MaxClock
  /\ now' = now + 1
  /\ UNCHANGED <<migrationJobs, promises, polls, servicesVars>>

\* the migration of start request r returns its job or throws
SettleMigration(r) ==
  /\ r \in 1..Len(promises)
  /\ promises[r].pc = "running"
  /\ \/ \E job \in ResolvedJobs :
          promises' = [promises EXCEPT ![r].pc = "done", ![r].outcome = "returned",
                                       ![r].job = job]
     \/ \E e \in {MongoError} \cup SupabaseErrors :
          promises' = [promises EXCEPT ![r].pc = "done", ![r].outcome = "thrown",
                                       ![r].thrown = e]
  /\ UNCHANGED <<now, migrationJobs, polls, servicesVars>>

JobNotFound ==
  [fields |-> {"error"}, status |-> "none", processed_records |-> 0,
   failed_records |-> 0, error_message |-> "Job not found"]

\* GET /api/migration/status/[jobId]
GetJobStatus(jobId) ==
  /\ Len(polls) < MaxPolls
  /\ IF jobId \notin DOMAIN migrationJobs
     THEN polls' = Append(polls, [jobId |-> jobId, promise |-> 0, settled |-> FALSE,
                                  http |-> 404, body |-> JobNotFound])
     ELSE \E r \in {migrationJobs[jobId]} :
          polls' = Append(polls,
                     [jobId |-> jobId, promise |-> r,
                      settled |-> promises[r].pc = "done", http |-> 200,
                      body |-> StatusResponse(promises[r].pc, promises[r].job,
                                              promises[r].outcome, promises[r].thrown)])
  /\ UNCHANGED <<now, migrationJobs, promises, servicesVars>>

\* the job ids a client asks for: every id the clock can make and one more
AskedIds == {JobIdAt(t) : t \in 0..(MaxClock + 1)}

InitRoutes ==
  /\ ProgramIdle
  /\ applied = NoApplied

NextRoutes ==
  \/ StartMigration
  \/ Tick
  \/ \E r \in 1..MaxStarts : SettleMigration(r)
  \/ \E jobId \in AskedIds : GetJobStatus(jobId)

SpecRoutes == InitRoutes /\ [][NextRoutes]_vars

\* the status a settled migration ends with: that of the job it returned, or
\* failed when it threw
TerminalStatus(promise) ==
  IF promise.outcome = "returned" THEN promise.job.status ELSE "failed"

\* C35: get-status answers 404 for a job id that is not registered; for a
\* registered job it reports running as long as the migration promise is
\* unsettled and the job's terminal status, completed or failed, once it
\* has settled; and after a terminal status was reported for a job every
\* later get-status for that job reports the same status.
C35_TerminalStatusStable ==
  \A k \in 1..Len(polls) : \E p \in {polls[k]} :
    IF p.promise = 0
    THEN p.http = 404
    ELSE /\ p.http = 200
         /\ ~p.settled => p.body.status = "running"
         /\ p.settled =>
              /\ p.body.status = TerminalStatus(promises[p.promise])
              /\ p.body.status \in {"completed", "failed"}
         /\ p.body.status # "running" =>
              \A j \in (k + 1)..Len(polls) :
                polls[j].promise = p.promise => polls[j].body.status = p.body.status

\* an unknown id was asked for, and a registered job was reported running and
\* later completed
C35_Witness ==
  /\ Len(polls) = MaxPolls
  /\ polls[1].promise # 0 /\ polls[1].body.status = "running"
  /\ polls[2].promise = polls[1].promise /\ polls[2].body.status = "completed"

\* C36: any two accepted start requests are registered under distinct job
\* ids, so the id a request returned names, in the job map, the migration
\* that request started, whatever the order of the requests.
C36_JobIdentity ==
  /\ \A r1, r2 \in 1..Len(promises) :
       r1 # r2 => promises[r1].jobId # promises[r2].jobId
  /\ \A r \in 1..Len(promises) : migrationJobs[promises[r].jobId] = r

(***************************************************************************)
(* Termination of the three migrations: every awaited call returns, so a   *)
(* migration that can take a step takes one.                                *)
(***************************************************************************)
MigrationStep ==
  \/ Connect
  \/ EnsureDefaultChannel
  \/ CreateChannel
  \/ CountPosts
  \/ FetchBatch
  \/ EndBatch
  \/ Disconnect
  \/ VectorOnlyStart
  \/ VectorOnlyBatch
  \/ VectorOnlyFinish
  \/ WithVectorsStart
  \/ WithVectorsBatch
  \/ WithVectorsFinish

\* processBatch has a post of the batch left to handle
ProcessPostEnabled == pc = "processBatch" /\ idx <= Len(posts)

\* weak fairness of ProcessPost, with its enabling condition written out:
\* the loop over the batch goes on to its next post
FairProcessPost == <>[]ProcessPostEnabled => []<><<ProcessPost>>_vars

SpecTerminate ==
  InitOrchestrators /\ [][NextOrchestrators]_vars
    /\ WF_vars(MigrationStep) /\ FairProcessPost

\* the cursor b lies after the cursor a (no cursor lies before every cursor)
CursorAfter(a, b) == b # NoId /\ (a = NoId \/ a.v < b.v)

\* C37: on an unchanged finite source, with every remote call returning,
\* migrateAllPosts ends after finitely many batches: it returns its job with
\* status completed or failed, or throws before a job exists; its cursor moves
\* forward with every non-empty batch; migrateToVectorOnly and
\* migrateWithVectors end after finitely many batches for every batch size.
C37_Termination ==
  /\ (pc = "connect") ~>
       (pc = "done" /\ (outcome = "returned" =>
                          migrationJob.status \in {"completed", "failed"}))
  /\ (mpc = "start") ~> (mpc = "done")
  /\ [][(pc = "processBatch" /\ pc' = "fetch") => CursorAfter(lastId, lastId')]_vars

\* C37 as stated: a migrateAllPosts that has ended has reached the status
\* completed or failed
C37_EndsWithAStatus ==
  pc = "done" => migrationJob.status \in {"completed", "failed"}

\* a batch migration has returned after more than one batch
C37_Witness ==
  /\ mpc = "done"
  /\ moutcome = "returned"
  /\ Len(mfetches) >= 2
  /\ result.processed >= 2

(***************************************************************************)
(* Release of the source connection                                        *)
(***************************************************************************)
\* C38: a migrateAllPosts whose connect succeeded has disconnected from the
\* source when it has returned or thrown; the client is connected only between
\* connect and the finally block.
C38_ConnectionReleased ==
  /\ pc = "done" => client # "connected"
  /\ client = "connected" =>
       pc \in {"ensureChannel", "createChannel", "count", "fetch", "processBatch",
               "finally"}

\* a migrateAllPosts that connected and then threw has ended disconnected
C38_Witness ==
  /\ pc = "done"
  /\ outcome = "thrown"
  /\ client = "none"

(***************************************************************************)
(* A caller that runs migrateToVectorOnly again, with the same options,     *)
(* once the previous run has returned: the same source, the same vector     *)
(* index, and randomUUID handing out identifiers it has not handed out      *)
(* before.                                                                  *)
(***************************************************************************)
MigrateToVectorOnlyAgain ==
  /\ mfn = "migrateToVectorOnly"
  /\ mpc = "done"
  /\ moutcome = "returned"
  /\ runs < MaxRuns
  /\ runs' = runs + 1
  /\ result' = NoResult
  /\ moutcome' = "pending"
  /\ mpc' = "start"
  /\ UNCHANGED <<mfn, mopts, totalPosts, currentOffset, vectorBatch, uuids, mfetches,
                 mwrites, qdrant_collection, initLog, news_articles, qdrant_points,
                 upserts, stepVars, sideVars>>
  /\ UNCHANGED <<collection, batchSize, news_channels, defaultChannelId, client, pc,
                 call, options, channelId, migrationJob, lastId, totalProcessed,
                 totalFailed, allErrors, posts, idx, results, outcome, thrown, requests,
                 fetches, handed, outcomes, statuses, prev>>

InitRepeat ==
  /\ InitMigrate
  /\ Len(collection) <= MaxRerunPosts

NextRepeat ==
  \/ \E limit \in Limits, dry \in BOOLEAN : CallMigrateToVectorOnly(limit, 0, dry)
  \/ VectorOnlyStart
  \/ VectorOnlyBatch
  \/ VectorOnlyFinish
  \/ MigrateToVectorOnlyAgain

SpecRepeat == InitRepeat /\ [][NextRepeat]_vars

\* C39: running migrateToVectorOnly twice over the same unchanged source
\* leaves the vector index with at most one point per source identifier.
C39_OnePointPerSource ==
  \A p, q \in qdrant_points :
    p.payload.original_mongo_id = q.payload.original_mongo_id => p = q

====
